---- MODULE Spec2Model ----
(***************************************************************************)
(* Proof-token lifecycle and notification delivery of saegim               *)
(* (server/src/services: token_service, admin_service, proof_service,      *)
(* notification_service; server/src/api/routes/public).                    *)
(*                                                                         *)
(* The database tables are the state: qr_tokens, orders.status, proofs,    *)
(* notifications.  Every request handler is one action; a background       *)
(* delivery (_send_notification) is a sequence of steps that interleave    *)
(* with later requests.                                                    *)
(***************************************************************************)
EXTENDS Integers, Sequences, FiniteSets, TLC

\* ---------------------------------------------------------------- bounds
MaxTokens == 2
MaxProofs == 2
MaxIds == 2
NumCodes == 2
MaxClicks == 2

\* ------------------------------------------------------ program constants
NOTIFICATION_MAX_RETRIES == 3
NOTIFICATION_RETRY_DELAY_SECONDS == 1

\* Two orders: every handler works on one order, or on a list of orders one
\* at a time.
Orders == {1, 2}

\* Token strings are numbered in the order generate_token returns them; 0 is
\* a string it never returns.
NeverIssued == 0

ProofTypes == {"BEFORE", "AFTER", "RECEIPT", "DAMAGE", "OTHER"}

OrderStatuses == {"PENDING", "TOKEN_ISSUED", "PROOF_UPLOADED", "NOTIFIED", "COMPLETED"}

None == [none |-> TRUE]

\* No request is being handled.
NoCalls == <<>>

\* None where an Order is expected (order ids start at 1)
NoOrder == 0

VARIABLES
    qr_tokens,      \* table qr_tokens: set of rows
    order_status,   \* orders.status, per order id
    proofs,         \* table proofs: the number of rows per (order_id, proof_type)
    tasks,          \* the BackgroundTasks of the last request: deliveries it scheduled
    next_token,     \* number of strings secrets.token_urlsafe has returned
    resp,           \* the response of the last request handled
    settings,       \* core.config.settings, as far as a delivery reads it
    organization,   \* the organization of the orders, as far as a delivery reads it
    retry,          \* one run of _retry_with_backoff: its arguments, locals and outcome
    short_links,    \* table short_links: set of rows
    notifications,  \* table notifications: rows in the order of their ids
    delivery,       \* where the running background task is in _send_notification
    inflight        \* the requests being handled at the same time, each with its locals

tvars == <<qr_tokens, order_status, proofs, next_token, resp>>
dvars == <<settings, organization, short_links, notifications, delivery>>
vars == <<qr_tokens, order_status, proofs, tasks, next_token, resp,
          settings, organization, short_links, notifications, delivery, retry,
          inflight>>

\* ------------------------------------------------------------ QRToken
QRToken(token, order_id) ==
    [token |-> token, order_id |-> order_id, is_valid |-> TRUE, revoked_at |-> FALSE]

\* secrets.token_urlsafe(TOKEN_LENGTH): 96 bits from the OS random source,
\* a value no earlier call returned.
generate_token(next) == next

\* db.query(QRToken).filter(QRToken.token == token).first()
get_token(rows, token) ==
    IF \E r \in rows : r.token = token
    THEN CHOOSE r \in rows : r.token = token
    ELSE None

\* Order.qr_token (relationship, uselist=False): the row of the order, the
\* oldest one if the table held several.
qr_token(rows, order_id) ==
    LET mine == {r \in rows : r.order_id = order_id} IN
    IF mine # {}
    THEN CHOOSE r \in mine : \A q \in mine : r.token <= q.token
    ELSE None

\* Mutant: only the token string is unique.
UniqueViolation_TokenOnly(rows, row) == \E r \in rows : r.token = row.token

\* unique=True on qr_tokens.token and on qr_tokens.order_id: the INSERT of
\* row is rejected (IntegrityError at commit) when either is taken.
UniqueViolation(rows, row) ==
    \E r \in rows : r.token = row.token \/ r.order_id = row.order_id

\* Mutant: get_order_by_token does not look at is_valid.
get_order_by_token_IgnoreValid(rows, token) ==
    LET t == get_token(rows, token) IN
    IF t # None THEN t.order_id ELSE NoOrder

validate_token(rows, token) ==
    LET t == get_token(rows, token) IN t # None /\ t.is_valid

get_order_by_token(rows, token) ==
    LET t == get_token(rows, token) IN
    IF t # None /\ t.is_valid THEN t.order_id ELSE NoOrder

\* create_token_for_order: the rows after the call and whether commit passed
create_token_for_order(rows, order_id, token) ==
    LET row == QRToken(token, order_id) IN
    IF UniqueViolation(rows, row)
    THEN [ok |-> FALSE, rows |-> rows, row |-> None]
    ELSE [ok |-> TRUE, rows |-> rows \cup {row}, row |-> row]

\* ------------------------------------------------------------ requests
\* The result of a handler: the tables after it, the value it returns and
\* the tasks it added to its BackgroundTasks.
Result(rows, status, prf, next, tsk, out) ==
    [qr_tokens |-> rows, order_status |-> status, proofs |-> prf,
     next_token |-> next, tasks |-> tsk, resp |-> out]

TokenOut(order_id, force, token) ==
    [op |-> "issue_token", order_id |-> order_id, force |-> force, status |-> 200,
     token |-> token, token_valid |-> TRUE]

\* Mutant: a reissue adds the new row and leaves the old row in the table.
IssueToken_NoDelete(rows, status, prf, next, order_id, force) ==
    LET existing == qr_token(rows, order_id)
        row == QRToken(generate_token(next), order_id)
    IN  IF existing # None /\ existing.is_valid /\ ~force
        THEN Result(rows, status, prf, next, <<>>,
                    TokenOut(order_id, force, existing.token))
        ELSE Result(rows \cup {row}, [status EXCEPT ![order_id] = "TOKEN_ISSUED"], prf,
                    next + 1, <<>>, TokenOut(order_id, force, row.token))

\* Mutant: every call makes a new token, a valid one is not reused.
IssueToken_AlwaysNew(rows, status, prf, next, order_id, force) ==
    LET existing == qr_token(rows, order_id)
        kept == IF existing # None THEN rows \ {existing} ELSE rows
        made == create_token_for_order(kept, order_id, generate_token(next))
    IN  Result(made.rows, [status EXCEPT ![order_id] = "TOKEN_ISSUED"], prf,
               next + 1, <<>>, TokenOut(order_id, force, made.row.token))

\* Mutant: an invalid token of the order is made valid again and returned.
IssueToken_Reactivate(rows, status, prf, next, order_id, force) ==
    LET existing == qr_token(rows, order_id)
        kept == IF existing # None THEN rows \ {existing} ELSE rows
        made == create_token_for_order(kept, order_id, generate_token(next))
    IN  IF existing # None /\ ~force
        THEN Result(kept \cup {[existing EXCEPT !.is_valid = TRUE]}, status, prf, next,
                    <<>>, TokenOut(order_id, force, existing.token))
        ELSE Result(made.rows, [status EXCEPT ![order_id] = "TOKEN_ISSUED"], prf,
                    next + 1, <<>>, TokenOut(order_id, force, made.row.token))

\* Mutant: force is ignored, a valid token is always reused.
IssueToken_ForceIgnored(rows, status, prf, next, order_id, force) ==
    LET existing == qr_token(rows, order_id)
        kept == IF existing # None THEN rows \ {existing} ELSE rows
        made == create_token_for_order(kept, order_id, generate_token(next))
    IN  IF existing # None /\ existing.is_valid
        THEN Result(rows, status, prf, next, <<>>,
                    TokenOut(order_id, force, existing.token))
        ELSE Result(made.rows, [status EXCEPT ![order_id] = "TOKEN_ISSUED"], prf,
                    next + 1, <<>>, TokenOut(order_id, force, made.row.token))

\* AdminService.issue_token
IssueToken(rows, status, prf, next, order_id, force) ==
    LET existing == qr_token(rows, order_id)
        kept == IF existing # None THEN rows \ {existing} ELSE rows
        made == create_token_for_order(kept, order_id, generate_token(next))
    IN  IF existing # None /\ existing.is_valid /\ ~force
        THEN Result(rows, status, prf, next, <<>>,
                    TokenOut(order_id, force, existing.token))
        ELSE IF made.ok
        THEN Result(made.rows, [status EXCEPT ![order_id] = "TOKEN_ISSUED"], prf,
                    next + 1, <<>>, TokenOut(order_id, force, made.row.token))
        ELSE Result(kept, status, prf, next + 1, <<>>,
                    [op |-> "issue_token", order_id |-> order_id, force |-> force,
                     status |-> 500, token |-> NeverIssued, token_valid |-> FALSE])

\* RevokeToken that stamps revoked_at and leaves is_valid as it was.
RevokeToken_KeepValid(rows, status, prf, next, token) ==
    LET t == get_token(rows, token) IN
    IF t # None /\ t.is_valid
    THEN Result((rows \ {t}) \cup {[t EXCEPT !.revoked_at = TRUE]},
                status, prf, next, <<>>, [op |-> "revoke_token", result |-> TRUE])
    ELSE Result(rows, status, prf, next, <<>>, [op |-> "revoke_token", result |-> FALSE])

\* TokenService.revoke_token
RevokeToken(rows, status, prf, next, token) ==
    LET t == get_token(rows, token) IN
    IF t # None /\ t.is_valid
    THEN Result((rows \ {t}) \cup {[t EXCEPT !.is_valid = FALSE, !.revoked_at = TRUE]},
                status, prf, next, <<>>,
                [op |-> "revoke_token", result |-> TRUE])
    ELSE Result(rows, status, prf, next, <<>>,
                [op |-> "revoke_token", result |-> FALSE])

\* One order of a get_labels / bulk_generate_tokens loop works on a session:
\*   rows    qr_tokens as the session sees it
\*   status  Order.status as the session sees it (pending changes included)
\*   saved   Order.status as of the last commit
\*   next    the next string token_urlsafe returns
\*   out     the result list built so far
\*   ok      FALSE once an exception left the loop
Session(rows, status, next) ==
    [rows |-> rows, status |-> status, saved |-> status, next |-> next,
     out |-> <<>>, ok |-> TRUE]

\* De-dup while keeping order
RECURSIVE Dedup(_, _)
Dedup(ids, seen) ==
    IF ids = <<>> THEN <<>>
    ELSE IF Head(ids) \in seen THEN Dedup(Tail(ids), seen)
    ELSE <<Head(ids)>> \o Dedup(Tail(ids), seen \cup {Head(ids)})

\* get_labels, body of the loop for one order id
LabelsStep(S, oid, ensure_tokens, force) ==
    LET existing == qr_token(S.rows, oid)
        \* if (existing is None) and ensure_tokens
        made1 == create_token_for_order(S.rows, oid, S.next)
        S1 == IF existing = None /\ ensure_tokens
              THEN IF made1.ok
                   THEN [S EXCEPT !.rows = made1.rows, !.saved = S.status,
                                  !.status = [S.status EXCEPT ![oid] = "TOKEN_ISSUED"],
                                  !.next = S.next + 1]
                   ELSE [S EXCEPT !.status = S.saved, !.next = S.next + 1, !.ok = FALSE]
              ELSE S
        existing1 == IF existing = None /\ ensure_tokens THEN made1.row ELSE existing
        \* if existing and force
        kept == S1.rows \ {existing1}
        made2 == create_token_for_order(kept, oid, S1.next)
        S2 == IF S1.ok /\ existing1 # None /\ force
              THEN IF made2.ok
                   THEN [S1 EXCEPT !.rows = made2.rows, !.saved = S1.status,
                                   !.status = [S1.status EXCEPT ![oid] = "TOKEN_ISSUED"],
                                   !.next = S1.next + 1]
                   ELSE [S1 EXCEPT !.rows = kept, !.saved = S1.status,
                                   !.next = S1.next + 1, !.ok = FALSE]
              ELSE S1
        existing2 == IF S1.ok /\ existing1 # None /\ force THEN made2.row ELSE existing1
    IN  IF ~S2.ok \/ existing2 = None THEN S2
        ELSE [S2 EXCEPT !.out = Append(S2.out,
                 [order_id |-> oid, token |-> existing2.token,
                  token_valid |-> existing2.is_valid])]

RECURSIVE LabelsLoop(_, _, _, _)
LabelsLoop(S, ids, ensure_tokens, force) ==
    IF ids = <<>> \/ ~S.ok THEN S
    ELSE LabelsLoop(LabelsStep(S, Head(ids), ensure_tokens, force),
                    Tail(ids), ensure_tokens, force)

\* AdminService.get_labels
GetLabels(rows, status, prf, next, order_ids, ensure_tokens, force) ==
    LET S == LabelsLoop(Session(rows, status, next), Dedup(order_ids, {}),
                        ensure_tokens, force)
    IN  IF S.ok
        THEN Result(S.rows, S.status, prf, S.next, <<>>,
                    [op |-> "get_labels", status |-> 200, out |-> S.out])
        ELSE Result(S.rows, S.saved, prf, S.next, <<>>,
                    [op |-> "get_labels", status |-> 500, out |-> <<>>])

\* bulk_generate_tokens, body of the loop for one order id
BulkStep(S, oid, force) ==
    LET existing == qr_token(S.rows, oid)
        kept == IF existing # None /\ force THEN S.rows \ {existing} ELSE S.rows
        made == create_token_for_order(kept, oid, S.next)
    IN  IF existing # None /\ existing.is_valid /\ ~force
        THEN [S EXCEPT !.out = Append(S.out,
                 [order_id |-> oid, success |-> TRUE, token |-> existing.token])]
        ELSE IF made.ok
        THEN [S EXCEPT !.rows = made.rows, !.saved = S.status,
                       !.status = [S.status EXCEPT ![oid] = "TOKEN_ISSUED"],
                       !.next = S.next + 1,
                       !.out = Append(S.out,
                           [order_id |-> oid, success |-> TRUE, token |-> made.row.token])]
        \* except Exception: the failed commit rolled the transaction back
        ELSE [S EXCEPT !.status = S.saved, !.next = S.next + 1,
                       !.out = Append(S.out, [order_id |-> oid, success |-> FALSE])]

RECURSIVE BulkLoop(_, _, _)
BulkLoop(S, ids, force) ==
    IF ids = <<>> THEN S
    ELSE BulkLoop(BulkStep(S, Head(ids), force), Tail(ids), force)

\* AdminService.bulk_generate_tokens
BulkGenerateTokens(rows, status, prf, next, order_ids, force) ==
    LET S == BulkLoop(Session(rows, status, next), Dedup(order_ids, {}), force)
    IN  Result(S.rows, S.status, prf, S.next, <<>>,
               [op |-> "bulk_generate_tokens", status |-> 200, results |-> S.out])

\* ------------------------------------------------------------ proofs
\* A Proof row is identified here by (order_id, proof_type); proofs counts
\* the rows of each kind, so that two rows of one kind can be told from one.
Proof(order_id, proof_type) == <<order_id, proof_type>>

RECURSIVE SumOver(_, _)
SumOver(f, ks) ==
    IF ks = {} THEN 0
    ELSE LET k == CHOOSE k \in ks : TRUE IN f[k] + SumOver(f, ks \ {k})

ProofCount(prf) == SumOver(prf, DOMAIN prf)

\* db.query(Proof).filter(order_id, proof_type).first() is not None
HasProof(prf, order_id, proof_type) == prf[Proof(order_id, proof_type)] > 0

\* decrypt_phone followed by _clean_phone: a number ("ok") or an exception
\* of the cipher ("fail"); "absent" is a NULL recipient_phone_encrypted.
SenderPhones == {"ok", "fail"}
RecipientPhones == {"absent", "ok", "fail"}

Task(order_id, type) == [order_id |-> order_id, type |-> type]

\* One try block of send_dual_notification: decrypt_phone, _clean_phone and
\* add_task; an exception of the cipher is caught and logged, and the queue
\* stays as it was.
TryAddTask(queue, order_id, type, phone) ==
    IF phone = "ok" THEN Append(queue, Task(order_id, type)) ELSE queue

\* Mutant: the sender's phone is decrypted outside a try block.
SendDualNotification_SenderRaises(queue, order_id, sender_phone, recipient_phone) ==
    IF sender_phone = "fail"
    THEN [tasks |-> queue, raised |-> TRUE]
    ELSE [tasks |-> TryAddTask(TryAddTask(queue, order_id, "SENDER", sender_phone),
                               order_id, "RECIPIENT", recipient_phone),
          raised |-> FALSE]

\* NotificationService.send_dual_notification on the queue of the request:
\* the sender's block, then the recipient's block; the queue after the call
\* and whether the call raised
SendDualNotification(queue, order_id, sender_phone, recipient_phone) ==
    [tasks |-> TryAddTask(TryAddTask(queue, order_id, "SENDER", sender_phone),
                          order_id, "RECIPIENT", recipient_phone),
     raised |-> FALSE]

\* Mutant: the recipient is never notified.
send_dual_notification_SenderOnly(order_id, sender_phone, recipient_phone) ==
    IF sender_phone = "ok" THEN <<Task(order_id, "SENDER")>> ELSE <<>>

\* NotificationService.send_dual_notification: the tasks it adds
send_dual_notification(order_id, sender_phone, recipient_phone) ==
    SendDualNotification(<<>>, order_id, sender_phone, recipient_phone).tasks

\* TokenService.invalidate_token_after_proof
invalidate_token_after_proof(rows, token) ==
    LET t == get_token(rows, token) IN
    IF t # None THEN (rows \ {t}) \cup {[t EXCEPT !.is_valid = FALSE]} ELSE rows

\* An uploaded file: its content type is an image type or not, its size is
\* within 10MB or not, writing it to the upload directory works or not.
File(image, size_ok, writable) ==
    [image |-> image, size_ok |-> size_ok, writable |-> writable]
Files == [image : BOOLEAN, size_ok : BOOLEAN, writable : BOOLEAN]

\* The files the uploads of a run present: a good one and one for each way
\* of being refused.
UploadedFiles == {File(TRUE, TRUE, TRUE), File(FALSE, TRUE, TRUE),
                  File(TRUE, FALSE, TRUE), File(TRUE, TRUE, FALSE)}

\* The proof types the uploads of a run present: BEFORE, the terminal AFTER,
\* and RECEIPT for the three types (RECEIPT, DAMAGE, OTHER) that no branch of
\* the code tells apart.
UploadedTypes == {"BEFORE", "AFTER", "RECEIPT"}

UploadOut(status, detail, body) ==
    [op |-> "upload_proof", status |-> status, detail |-> detail, body |-> body]

\* Mutant: the check for an existing proof of the same type is missing.
CreateProofError_NoDuplicateCheck(rows, prf, token, proof_type, file) ==
    LET order == get_order_by_token(rows, token) IN
    IF order = NoOrder THEN "Invalid or expired token."
    ELSE IF ~file.writable THEN "IOError"
    ELSE ""

\* ProofService.create_proof: what it raises, or "" when it returns
CreateProofError(rows, prf, token, proof_type, file) ==
    LET order == get_order_by_token(rows, token) IN
    IF order = NoOrder THEN "Invalid or expired token."
    ELSE IF HasProof(prf, order, proof_type)
    THEN proof_type \o " proof already uploaded for this order."
    ELSE IF ~file.writable THEN "IOError"
    ELSE ""

\* Mutant: the AFTER branch forgets to invalidate the token.
CreateProof_KeepToken(rows, status, prf, next, token, proof_type, sender_phone, recipient_phone) ==
    LET order == get_order_by_token(rows, token)
        out == UploadOut(200, "success",
                   IF proof_type = "AFTER"
                   THEN [proof_type |-> proof_type, token |-> token,
                         sender_phone |-> sender_phone,
                         recipient_phone |-> recipient_phone]
                   ELSE [proof_type |-> proof_type, token |-> token])
        prf1 == [prf EXCEPT ![Proof(order, proof_type)] = @ + 1]
    IN  IF proof_type = "AFTER"
        THEN Result(rows, [status EXCEPT ![order] = "PROOF_UPLOADED"], prf1, next,
                    send_dual_notification(order, sender_phone, recipient_phone), out)
        ELSE Result(rows, status, prf1, next, <<>>, out)

\* Mutant: every proof type is treated as the terminal one.
CreateProof_AlwaysTerminal(rows, status, prf, next, token, proof_type, sender_phone, recipient_phone) ==
    LET order == get_order_by_token(rows, token)
        out == UploadOut(200, "success",
                   IF proof_type = "AFTER"
                   THEN [proof_type |-> proof_type, token |-> token,
                         sender_phone |-> sender_phone,
                         recipient_phone |-> recipient_phone]
                   ELSE [proof_type |-> proof_type, token |-> token])
        prf1 == [prf EXCEPT ![Proof(order, proof_type)] = @ + 1]
    IN  Result(invalidate_token_after_proof(rows, token),
               [status EXCEPT ![order] = "PROOF_UPLOADED"], prf1, next,
               send_dual_notification(order, sender_phone, recipient_phone), out)

\* ProofService.create_proof, when it returns
\* create_proof from the Proof row on, for the order its token check found:
\* the row, the status, the token invalidation, the commit and the scheduling.
CreateProofFrom(rows, status, prf, next, order, token, proof_type, sender_phone, recipient_phone) ==
    LET out == UploadOut(200, "success",
                   IF proof_type = "AFTER"
                   THEN [proof_type |-> proof_type, token |-> token,
                         sender_phone |-> sender_phone,
                         recipient_phone |-> recipient_phone]
                   ELSE [proof_type |-> proof_type, token |-> token])
        prf1 == [prf EXCEPT ![Proof(order, proof_type)] = @ + 1]
    IN  IF proof_type = "AFTER"
        THEN Result(invalidate_token_after_proof(rows, token),
                    [status EXCEPT ![order] = "PROOF_UPLOADED"], prf1, next,
                    send_dual_notification(order, sender_phone, recipient_phone), out)
        ELSE Result(rows, status, prf1, next, <<>>, out)

CreateProof(rows, status, prf, next, token, proof_type, sender_phone, recipient_phone) ==
    CreateProofFrom(rows, status, prf, next, get_order_by_token(rows, token), token,
                    proof_type, sender_phone, recipient_phone)

\* upload_proof that asks create_proof for the token and the duplicate before
\* it looks at the file.
UploadProof_TokenFirst(rows, status, prf, next, token, proof_type, file, sender_phone, recipient_phone) ==
    LET err == CreateProofError(rows, prf, token, proof_type, File(TRUE, TRUE, TRUE))
        Fail(code, detail) == Result(rows, status, prf, next, <<>>, UploadOut(code, detail, None))
    IN  IF err # "" THEN Fail(404, err)
        ELSE IF ~file.image THEN Fail(422, "UPLOAD_FAILED: Invalid file type. Only images are allowed.")
        ELSE IF ~file.size_ok THEN Fail(422, "UPLOAD_FAILED: File too large. Maximum size is 10MB.")
        ELSE IF ~file.writable THEN Fail(500, "UPLOAD_FAILED: Failed to save file.")
        ELSE CreateProof(rows, status, prf, next, token, proof_type, sender_phone, recipient_phone)

\* POST /public/proof/{token}/upload: upload_proof around create_proof
UploadProof(rows, status, prf, next, token, proof_type, file, sender_phone, recipient_phone) ==
    LET err == CreateProofError(rows, prf, token, proof_type, file)
        Fail(code, detail) == Result(rows, status, prf, next, <<>>,
                                     UploadOut(code, detail, None))
    IN  IF ~file.image
        THEN Fail(422, "UPLOAD_FAILED: Invalid file type. Only images are allowed.")
        ELSE IF ~file.size_ok
        THEN Fail(422, "UPLOAD_FAILED: File too large. Maximum size is 10MB.")
        ELSE IF err = "IOError"
        THEN Fail(500, "UPLOAD_FAILED: Failed to save file.")
        ELSE IF err # ""
        THEN Fail(404, err)
        ELSE CreateProof(rows, status, prf, next, token, proof_type,
                         sender_phone, recipient_phone)

\* type_order of get_proof_by_token
TypeOrder == <<"BEFORE", "AFTER", "RECEIPT", "DAMAGE", "OTHER">>

Repeat(x, n) == [i \in 1..n |-> x]

\* proof_items of order.proofs after proof_items.sort(key=type_order)
RECURSIVE SortedItems(_, _, _)
SortedItems(prf, order_id, k) ==
    IF k > Len(TypeOrder) THEN <<>>
    ELSE Repeat(TypeOrder[k], prf[Proof(order_id, TypeOrder[k])])
         \o SortedItems(prf, order_id, k + 1)

\* TokenService.get_proof_by_token
\* Mutant: the proof page asks for a valid token, as the upload does.
get_proof_by_token_ValidOnly(rows, prf, token) ==
    LET t == get_token(rows, token) IN
    IF t = None \/ ~t.is_valid THEN None
    ELSE LET items == SortedItems(prf, t.order_id, 1) IN
         IF items = <<>> THEN None
         ELSE [order_id |-> t.order_id, proofs |-> items,
               primary |-> IF \E i \in 1..Len(items) : items[i] = "AFTER"
                           THEN "AFTER" ELSE items[1]]

get_proof_by_token(rows, prf, token) ==
    LET t == get_token(rows, token) IN
    IF t = None THEN None
    ELSE LET items == SortedItems(prf, t.order_id, 1) IN
         IF items = <<>> THEN None
         ELSE [order_id |-> t.order_id, proofs |-> items,
               primary |-> IF \E i \in 1..Len(items) : items[i] = "AFTER"
                           THEN "AFTER" ELSE items[1]]

\* GET /public/proof/{token}
GetProof(rows, prf, token) ==
    LET data == get_proof_by_token(rows, prf, token) IN
    IF data = None
    THEN [op |-> "get_proof", status |-> 404, detail |-> "TOKEN_INVALID", body |-> None]
    ELSE [op |-> "get_proof", status |-> 200, detail |-> "", body |-> data]

\* GET /public/order/{token}
GetOrder(rows, prf, token) ==
    LET order == get_order_by_token(rows, token) IN
    IF order = NoOrder
    THEN [op |-> "get_order", status |-> 404, detail |-> "TOKEN_INVALID", body |-> None]
    ELSE [op |-> "get_order", status |-> 200, detail |-> "",
          body |-> [order_id |-> order,
                    has_before_proof |-> HasProof(prf, order, "BEFORE"),
                    has_after_proof |-> HasProof(prf, order, "AFTER")]]

\* ------------------------------------------------------------ notifications
\* MESSAGING_PROVIDER: "mock", or the name of a provider family
Providers == {"mock", "kakao_i_connect", "sens_sms"}

Settings(provider, fallback) ==
    [MESSAGING_PROVIDER |-> provider, FALLBACK_SMS_ENABLED |-> fallback]

\* Organization.msg_fallback_sms_enabled, a nullable Boolean column
Overrides == {"None", "True", "False"}

Organization(override) == [msg_fallback_sms_enabled |-> override]

\* A short code: its length and which of the codes of that length it is.
\* _ALPHABET, one character per element
_ALPHABET == <<"2", "3", "4", "5", "6", "7", "8", "9", "A", "B", "C", "D", "E", "F", "G", "H", "J", "K", "L", "M", "N", "P", "Q", "R", "S", "T", "U", "V", "W", "X", "Y", "Z">>

\* _generate_code(length), draws[k] being what the k-th call of
\* secrets.randbelow(len(_ALPHABET)) returns
generate_code(length, draws) == [k \in 1..length |-> _ALPHABET[draws[k] + 1]]

\* What secrets.randbelow returns in a run: NumCodes values, those of the
\* first letters of the alphabet.
Draws == {8 + i : i \in 0..(NumCodes - 1)}

\* The codes of a length a run draws: the same draw at every position.
Codes(length) == {generate_code(length, [k \in 1..length |-> d]) : d \in Draws}

\* The codes of _generate_code(7) and those of _generate_code(9)
ShortCodes == Codes(7)
LongCodes == Codes(9)

ShortLink(code, order_id, token) ==
    [code |-> code, order_id |-> order_id, target_token |-> token,
     target_path |-> "/p", click_count |-> 0]

\* The codes get_or_create_public_proof can end up with: a 7-character code
\* that no row has, or, when 12 draws in a row are all taken, a 9-character
\* code that is not looked up.
DrawnCodes(links) ==
    {c \in ShortCodes : \A l \in links : l.code # c}
    \cup (IF \E l \in links : l.code \in ShortCodes THEN LongCodes ELSE {})

\* ShortLinkService.get_existing_for_order
get_existing_for_order(links, order_id) ==
    IF \E l \in links : l.order_id = order_id
    THEN CHOOSE l \in links : l.order_id = order_id
    ELSE None

\* Mutant: an order that has a link gets another one.
get_or_create_public_proof_NewRow(links, order_id, token, code) ==
    LET link == ShortLink(code, order_id, token) IN
    [links |-> links \cup {link}, link |-> link]

\* ShortLinkService.get_or_create_public_proof: the table after the call and
\* the link returned
get_or_create_public_proof(links, order_id, token, code) ==
    LET existing == get_existing_for_order(links, order_id) IN
    IF existing # None
    THEN LET link == [existing EXCEPT !.target_token = token]
         IN  [links |-> (links \ {existing}) \cup {link}, link |-> link]
    ELSE LET link == ShortLink(code, order_id, token)
         IN  [links |-> links \cup {link}, link |-> link]

\* str.upper() on one character, for the letters a code can hold
LowerCase == <<"a", "b", "c", "d", "e", "f", "g", "h", "j", "k", "l", "m", "n", "p", "q", "r", "s", "t", "u", "v", "w", "x", "y", "z">>
UpperCase == <<"A", "B", "C", "D", "E", "F", "G", "H", "J", "K", "L", "M", "N", "P", "Q", "R", "S", "T", "U", "V", "W", "X", "Y", "Z">>
UpperOf == [ch \in {LowerCase[i] : i \in DOMAIN LowerCase} |-> UpperCase[CHOOSE i \in DOMAIN LowerCase : LowerCase[i] = ch]]
LowerOf == [ch \in {UpperCase[i] : i \in DOMAIN UpperCase} |-> LowerCase[CHOOSE i \in DOMAIN UpperCase : UpperCase[i] = ch]]
upper_char(ch) == IF ch \in DOMAIN UpperOf THEN UpperOf[ch] ELSE ch
lower_char(ch) == IF ch \in DOMAIN LowerOf THEN LowerOf[ch] ELSE ch

\* str.upper() and str.lower()
upper(str) == [k \in DOMAIN str |-> upper_char(str[k])]
lower(str) == [k \in DOMAIN str |-> lower_char(str[k])]

\* str.strip(): leading and trailing blanks removed
RECURSIVE lstrip(_)
lstrip(str) == IF str # <<>> /\ Head(str) = " " THEN lstrip(Tail(str)) ELSE str
RECURSIVE rstrip(_)
rstrip(str) ==
    IF str # <<>> /\ str[Len(str)] = " " THEN rstrip(SubSeq(str, 1, Len(str) - 1)) ELSE str
strip(str) == rstrip(lstrip(str))

\* Mutant: the code is looked up as it was typed.
normalize_code_AsTyped(code) == code

\* code = (code or "").strip().upper()
normalize_code(code) == upper(strip(code))

\* ShortLinkService.resolve: the table after the call and the link returned.
\* The row is the one .first() finds for the code; pick is that row when
\* several rows have the code.
resolve(links, code, pick) ==
    LET matches == {l \in links : l.code = code}
        link == IF matches = {} THEN None
                ELSE IF pick \in matches THEN pick
                ELSE CHOOSE l \in matches : TRUE
    IN  IF code = <<>> \/ link = None
        THEN [links |-> links, link |-> None]
        ELSE LET clicked == [link EXCEPT !.click_count = @ + 1]
             IN  [links |-> (links \ {link}) \cup {clicked}, link |-> clicked]

ResolveOut(status, detail, link) ==
    [op |-> "resolve_short", status |-> status, detail |-> detail,
     target_path |-> IF link = None THEN "" ELSE link.target_path,
     target_token |-> IF link = None THEN NoOrder ELSE link.target_token]

\* resolve_short (GET /public/s/{code}): the table after the request and the
\* response
ResolveShort(links, raw, pick) ==
    LET code == normalize_code(raw)
        r == resolve(links, code, pick)
    IN  IF code = <<>>
        THEN [links |-> links, resp |-> ResolveOut(422, "SHORT_CODE_REQUIRED", None)]
        ELSE IF r.link = None
        THEN [links |-> r.links, resp |-> ResolveOut(404, "SHORT_NOT_FOUND", None)]
        ELSE [links |-> r.links, resp |-> ResolveOut(200, "", r.link)]

\* How the update of the metrics goes in resolve: it works, the assignment
\* of last_clicked_at inside the try raises, or the commit that writes the
\* counter and the timestamp raises.
Updates == {"ok", "stamp_raises", "commit_raises"}

\* ShortLinkService.resolve with the outcome of its update: the table after
\* the call, the link returned, and whether the call raised.  The try covers
\* the assignment of last_clicked_at only; the commit comes after it, and
\* what it raises leaves resolve with nothing written.
ResolveWith(links, code, pick, update) ==
    LET r == resolve(links, code, pick) IN
    IF r.link # None /\ update = "commit_raises"
    THEN [links |-> links, link |-> None, raised |-> TRUE]
    ELSE [links |-> r.links, link |-> r.link, raised |-> FALSE]

\* resolve_short (GET /public/s/{code}) with the outcome of the update: the
\* route has no try around resolve, so what resolve raises is answered 500.
ResolveShortWith(links, raw, pick, update) ==
    LET code == normalize_code(raw)
        r == ResolveWith(links, code, pick, update)
    IN  IF code = <<>> \/ ~r.raised
        THEN ResolveShort(links, raw, pick)
        ELSE [links |-> r.links, resp |-> ResolveOut(500, "Internal Server Error", None)]

Notification(order_id, type, channel) ==
    [order_id |-> order_id, type |-> type, channel |-> channel, status |-> "PENDING",
     sent_at |-> FALSE]

\* Mutant: the organization's override is not read.
fallback_sms_enabled_GlobalOnly(stg, org) == stg.FALLBACK_SMS_ENABLED

\* _templates_for_order(order)['fallback_sms_enabled']
fallback_sms_enabled(stg, org) ==
    IF org.msg_fallback_sms_enabled = "None"
    THEN stg.FALLBACK_SMS_ENABLED
    ELSE org.msg_fallback_sms_enabled = "True"

\* primary_channel of _send_notification
primary_channel(stg) ==
    IF stg.MESSAGING_PROVIDER \in {"sens_sms", "sens"} THEN "SMS" ELSE "ALIMTALK"

\* Mutant: the loop runs range(max_retries).
retry_with_backoff_Range(attempt, ok, max_retries) ==
    IF ok THEN "return"
    ELSE IF attempt + 1 < max_retries THEN "sleep"
    ELSE "raise"

\* _retry_with_backoff after the call number attempt (from 0) returned (ok)
\* or raised: it returns the result, sleeps and calls again, or raises.
retry_with_backoff(attempt, ok, max_retries) ==
    IF ok THEN "return"
    ELSE IF attempt < max_retries THEN "sleep"
    ELSE "raise"

\* No background task is running.  calls counts the provider calls (_do_send,
\* _do_fallback_send, _do_reminder_send) of the delivery that runs, or of the
\* last one that ran.
Idle == [pc |-> "idle", attempt |-> 0, row |-> 0, calls |-> 0]

Running(pc, attempt, row) == [pc |-> pc, attempt |-> attempt, row |-> row, calls |-> delivery.calls]

\* The statuses that are written together with sent_at.
SentStatuses == {"MOCK_SENT", "SENT", "FALLBACK_SENT"}

SetStatus(rows, i, status) ==
    [rows EXCEPT ![i].status = status,
                 ![i].sent_at = IF status \in SentStatuses THEN TRUE ELSE @]

\* ------------------------------------------------------------ retry
\* The largest max_retries a run of _retry_with_backoff is given.
MaxRetries == 3

\* base_delay of a run, in seconds
BaseDelays == {NOTIFICATION_RETRY_DELAY_SECONDS, 2}

\* What a call of the operation raises: the classes of
\* integrations/messaging/errors.py and the timeout of the HTTP client.
FailureCategories == {"ConfigMissingError", "ProviderHTTPError", "ProviderRejectedError", "TimeoutException"}

\* A call of the operation returns ("ok") or raises.
Outcomes == {"ok"} \cup FailureCategories

\* The exception object the call number call raised.
Exception(category, call) == [category |-> category, call |-> call]

\* The result the call number call returned.
SendResult(call) == [request_id |-> call]

\* Mutant: the delay grows by base_delay with each retry.
backoff_delay_Linear(base_delay, attempt) == base_delay * (attempt + 1)

\* delay = base_delay * (2 ** attempt)
backoff_delay(base_delay, attempt) == base_delay * 2^attempt

\* _retry_with_backoff(coro_func, max_retries, base_delay) on entry:
\*   attempt         the loop variable
\*   last_exception  the local of that name
\*   calls           number of calls of coro_func made
\*   errors          the exception each failed call raised, in order
\*   sleeps          the delay of each asyncio.sleep, in order
\*   pc              "call" in the loop, "returned" or "raised" after it
RetryStart(max_retries, base_delay) ==
    [max_retries |-> max_retries, base_delay |-> base_delay, attempt |-> 0,
     last_exception |-> None, calls |-> 0, errors |-> <<>>, sleeps |-> <<>>,
     pc |-> "call", result |-> None, exception |-> None]

\* Mutant: last_exception keeps the first exception.
RetryStep_FirstException(r, outcome) ==
    LET call == r.calls + 1
        e    == Exception(outcome, call)
        last == IF r.last_exception = None THEN e ELSE r.last_exception
        next == retry_with_backoff(r.attempt, outcome = "ok", r.max_retries)
    IN  IF next = "return"
        THEN [r EXCEPT !.calls = call, !.pc = "returned", !.result = SendResult(call)]
        ELSE IF next = "sleep"
        THEN [r EXCEPT !.calls = call, !.errors = Append(@, e), !.last_exception = last,
                       !.sleeps = Append(@, backoff_delay(r.base_delay, r.attempt)),
                       !.attempt = @ + 1]
        ELSE [r EXCEPT !.calls = call, !.errors = Append(@, e), !.last_exception = last,
                       !.pc = "raised", !.exception = last]

\* One iteration of the loop of _retry_with_backoff, the raise after the
\* loop included when the iteration was the last one.
RetryStep(r, outcome) ==
    LET call == r.calls + 1
        e    == Exception(outcome, call)
        next == retry_with_backoff(r.attempt, outcome = "ok", r.max_retries)
    IN  IF next = "return"
        THEN [r EXCEPT !.calls = call, !.pc = "returned", !.result = SendResult(call)]
        ELSE IF next = "sleep"
        THEN [r EXCEPT !.calls = call, !.errors = Append(@, e), !.last_exception = e,
                       !.sleeps = Append(@, backoff_delay(r.base_delay, r.attempt)),
                       !.attempt = @ + 1]
        ELSE [r EXCEPT !.calls = call, !.errors = Append(@, e), !.last_exception = e,
                       !.pc = "raised", !.exception = e]

\* ------------------------------------------------------------ actions
\* The tables become those of the handler's result.
Apply(result) ==
    LET r == result IN
    /\ r.next_token <= MaxTokens + 1
    /\ r.proofs # proofs => ProofCount(r.proofs) <= MaxProofs
    /\ qr_tokens' = r.qr_tokens
    /\ order_status' = r.order_status
    /\ proofs' = r.proofs
    /\ next_token' = r.next_token
    /\ tasks' = r.tasks
    /\ resp' = r.resp
    /\ UNCHANGED <<dvars, retry, inflight>>

\* Token strings a caller can present: 0 and the strings returned so far.
Presented == 0..(next_token - 1)

\* issue_order_token (POST /orders/{order_id}/token)
issue_token(order_id, force) ==
    /\ order_id \in Orders
    /\ Apply(IssueToken(qr_tokens, order_status, proofs, next_token, order_id, force))

\* a call of TokenService.revoke_token
revoke_token(token) ==
    /\ token \in Presented
    /\ Apply(RevokeToken(qr_tokens, order_status, proofs, next_token, token))

\* get_labels (POST /orders/labels)
get_labels(order_ids, ensure_tokens, force) ==
    /\ order_ids \in Seq(Orders)
    /\ Apply(GetLabels(qr_tokens, order_status, proofs, next_token,
                       order_ids, ensure_tokens, force))

\* bulk_generate_tokens (POST /orders/bulk-tokens)
bulk_generate_tokens(order_ids, force) ==
    /\ order_ids \in Seq(Orders)
    /\ Apply(BulkGenerateTokens(qr_tokens, order_status, proofs, next_token,
                                order_ids, force))

\* upload_proof (POST /public/proof/{token}/upload).  The phones are those of the order of
\* the token; they are read only when an AFTER proof is recorded.
upload_proof(token, proof_type, file) ==
    /\ token \in Presented
    /\ IF proof_type = "AFTER" /\ file.image /\ file.size_ok
          /\ CreateProofError(qr_tokens, proofs, token, proof_type, file) = ""
       THEN \E sender_phone \in SenderPhones, recipient_phone \in RecipientPhones :
               Apply(UploadProof(qr_tokens, order_status, proofs, next_token, token,
                                 proof_type, file, sender_phone, recipient_phone))
       ELSE Apply(UploadProof(qr_tokens, order_status, proofs, next_token, token,
                              proof_type, file, "ok", "absent"))

\* get_proof (GET /public/proof/{token})
get_proof(token) ==
    /\ token \in Presented
    /\ Apply(Result(qr_tokens, order_status, proofs, next_token, <<>>,
                    GetProof(qr_tokens, proofs, token)))

\* get_order_by_token (GET /public/order/{token})
get_order(token) ==
    /\ token \in Presented
    /\ Apply(Result(qr_tokens, order_status, proofs, next_token, <<>>,
                    GetOrder(qr_tokens, proofs, token)))

IdLists == UNION {[1..n -> Orders] : n \in 0..MaxIds}

Init ==
    /\ qr_tokens = {}
    /\ order_status = [o \in Orders |-> "PENDING"]
    /\ proofs = [k \in Orders \X ProofTypes |-> 0]
    /\ tasks = <<>>
    /\ next_token = 1
    /\ resp = [op |-> "none"]
    /\ settings = Settings("mock", TRUE)
    /\ organization = Organization("None")
    /\ short_links = {}
    /\ notifications = <<>>
    /\ delivery = Idle
    /\ inflight = NoCalls
    /\ retry = RetryStart(NOTIFICATION_MAX_RETRIES, NOTIFICATION_RETRY_DELAY_SECONDS)

Next ==
    \/ \E o \in Orders, f \in BOOLEAN : issue_token(o, f)
    \/ \E t \in 0..MaxTokens : revoke_token(t)
    \/ \E ids \in IdLists, e \in BOOLEAN, f \in BOOLEAN : get_labels(ids, e, f)
    \/ \E ids \in IdLists, f \in BOOLEAN : bulk_generate_tokens(ids, f)
    \/ \E t \in 0..MaxTokens, pt \in UploadedTypes, file \in UploadedFiles :
            upload_proof(t, pt, file)
    \/ \E t \in 0..MaxTokens : get_proof(t)
    \/ \E t \in 0..MaxTokens : get_order(t)

Spec == Init /\ [][Next]_vars

\* ------------------------------------------------------------ delivery
\* BackgroundTasks runs the tasks of a request one after the other; the steps
\* below are those of the first task left, each up to its next commit.

\* The running task returns: the next task, if any, can start.
Finish(rows, calls) ==
    /\ notifications' = rows
    /\ tasks' = Tail(tasks)
    /\ delivery' = [Idle EXCEPT !.calls = calls]

\* _send_notification up to the commit of the PENDING row
StartDelivery(code) ==
    LET task == Head(tasks)
        t == qr_token(qr_tokens, task.order_id)
    IN  /\ delivery.pc = "idle"
        /\ tasks # <<>>
        /\ task.type \in {"SENDER", "RECIPIENT"}
        /\ code \in DrawnCodes(short_links)
        /\ short_links' = IF t # None
                          THEN get_or_create_public_proof(short_links, task.order_id,
                                                          t.token, code).links
                          ELSE short_links
        /\ notifications' = Append(notifications,
                                   Notification(task.order_id, task.type,
                                                primary_channel(settings)))
        /\ delivery' = [Running(IF settings.MESSAGING_PROVIDER = "mock"
                                THEN "mock_send" ELSE "real_send",
                                0, Len(notifications) + 1) EXCEPT !.calls = 0]
        /\ UNCHANGED <<tvars, retry, inflight, tasks, settings, organization>>

\* _send_notification when the commit of the PENDING row raises: the commit
\* is outside the try, so the exception leaves the task; BackgroundTasks
\* awaits its tasks in one loop, which the exception ends, and the tasks
\* still in the list are never started.  The short link was committed by
\* get_or_create_public_proof before.
StartDeliveryRaises(code) ==
    LET task == Head(tasks)
        t == qr_token(qr_tokens, task.order_id)
    IN  /\ delivery.pc = "idle"
        /\ tasks # <<>>
        /\ task.type \in {"SENDER", "RECIPIENT"}
        /\ code \in DrawnCodes(short_links)
        /\ short_links' = IF t # None
                          THEN get_or_create_public_proof(short_links, task.order_id,
                                                          t.token, code).links
                          ELSE short_links
        /\ tasks' = <<>>
        /\ UNCHANGED <<tvars, retry, inflight, notifications, delivery, settings, organization>>

\* Mutant: the mock send marks the row without stamping sent_at.
MockSend_NoSentAt ==
    /\ delivery.pc = "mock_send"
    /\ Finish([notifications EXCEPT ![delivery.row].status = "MOCK_SENT"], delivery.calls)
    /\ UNCHANGED <<tvars, retry, inflight, settings, organization, short_links>>

\* _mock_send
MockSend ==
    /\ delivery.pc = "mock_send"
    /\ Finish(SetStatus(notifications, delivery.row, "MOCK_SENT"), delivery.calls)
    /\ UNCHANGED <<tvars, retry, inflight, settings, organization, short_links>>

\* Mutant: a primary send that failed for good leaves its row as it was.
PrimaryFailed_NoRecord(calls) ==
    IF primary_channel(settings) = "ALIMTALK" /\ fallback_sms_enabled(settings, organization)
    THEN /\ delivery' = [Running("fallback", 0, delivery.row) EXCEPT !.calls = calls]
         /\ UNCHANGED <<notifications, tasks>>
    ELSE Finish(notifications, calls)

\* except Exception of _send_notification: the primary row becomes FAILED,
\* and the SMS fallback follows when the primary channel was ALIMTALK and the
\* fallback is enabled.
PrimaryFailed(calls) ==
    IF primary_channel(settings) = "ALIMTALK" /\ fallback_sms_enabled(settings, organization)
    THEN /\ notifications' = SetStatus(notifications, delivery.row, "FAILED")
         /\ delivery' = [Running("fallback", 0, delivery.row) EXCEPT !.calls = calls]
         /\ UNCHANGED tasks
    ELSE Finish(SetStatus(notifications, delivery.row, "FAILED"), calls)

\* _real_send: get_primary_provider() returns a provider or raises
GetPrimaryProvider(ok) ==
    /\ delivery.pc = "real_send"
    /\ IF ok
       THEN /\ delivery' = Running("primary_try", 0, delivery.row)
            /\ UNCHANGED <<notifications, tasks>>
       ELSE PrimaryFailed(delivery.calls)
    /\ UNCHANGED <<tvars, retry, inflight, settings, organization, short_links>>

\* Mutant: a primary send that fails for good takes the recorded proof back.
PrimaryTry_UndoProof(ok) ==
    LET next == retry_with_backoff(delivery.attempt, ok, NOTIFICATION_MAX_RETRIES)
        o == Head(tasks).order_id
    IN
    /\ delivery.pc = "primary_try"
    /\ IF next = "return"
       THEN Finish(SetStatus(notifications, delivery.row, "SENT"), delivery.calls + 1)
            /\ UNCHANGED tvars
       ELSE IF next = "sleep"
       THEN /\ delivery' = [delivery EXCEPT !.attempt = @ + 1, !.calls = @ + 1]
            /\ UNCHANGED <<notifications, tasks, tvars>>
       ELSE /\ PrimaryFailed(delivery.calls + 1)
            /\ proofs' = [proofs EXCEPT ![Proof(o, "AFTER")] = 0]
            /\ order_status' = [order_status EXCEPT ![o] = "TOKEN_ISSUED"]
            /\ UNCHANGED <<qr_tokens, next_token, resp>>
    /\ UNCHANGED <<retry, inflight, settings, organization, short_links>>

\* _real_send: one call of _do_send inside _retry_with_backoff
PrimaryTry(ok) ==
    LET next == retry_with_backoff(delivery.attempt, ok, NOTIFICATION_MAX_RETRIES) IN
    /\ delivery.pc = "primary_try"
    /\ IF next = "return"
       THEN Finish(SetStatus(notifications, delivery.row, "SENT"), delivery.calls + 1)
       ELSE IF next = "sleep"
       THEN /\ delivery' = [delivery EXCEPT !.attempt = @ + 1, !.calls = @ + 1]
            /\ UNCHANGED <<notifications, tasks>>
       ELSE PrimaryFailed(delivery.calls + 1)
    /\ UNCHANGED <<tvars, retry, inflight, settings, organization, short_links>>

\* Mutant: the fallback sends first and would write its row afterwards.
StartFallback_SendFirst ==
    /\ delivery.pc = "fallback"
    /\ delivery' = Running("fallback_send", 0, Len(notifications) + 1)
    /\ UNCHANGED <<tvars, retry, inflight, tasks, notifications, settings, organization, short_links>>

\* A fallback that is recorded on the failed primary row.
StartFallback_UpdateRow ==
    LET task == Head(tasks) IN
    /\ delivery.pc = "fallback"
    /\ notifications' = [notifications EXCEPT ![delivery.row] = Notification(task.order_id, task.type, "SMS")]
    /\ delivery' = Running("fallback_send", 0, delivery.row)
    /\ UNCHANGED <<tvars, retry, inflight, tasks, settings, organization, short_links>>

\* _send_sms_fallback up to the commit of its PENDING row
StartFallback ==
    LET task == Head(tasks) IN
    /\ delivery.pc = "fallback"
    /\ notifications' = Append(notifications, Notification(task.order_id, task.type, "SMS"))
    /\ delivery' = Running("fallback_send", 0, Len(notifications) + 1)
    /\ UNCHANGED <<tvars, retry, inflight, tasks, settings, organization, short_links>>

\* _send_sms_fallback: the mock branch, or get_sms_provider() returns a
\* provider or raises
GetSmsProvider(ok) ==
    /\ delivery.pc = "fallback_send"
    /\ IF settings.MESSAGING_PROVIDER = "mock"
       THEN Finish(SetStatus(notifications, delivery.row, "MOCK_SENT"), delivery.calls)
       ELSE IF ok
       THEN /\ delivery' = Running("fallback_try", 0, delivery.row)
            /\ UNCHANGED <<notifications, tasks>>
       ELSE Finish(SetStatus(notifications, delivery.row, "FAILED"), delivery.calls)
    /\ UNCHANGED <<tvars, retry, inflight, settings, organization, short_links>>

\* Mutant: a fallback that failed for good is followed by another fallback.
FallbackTry_Cascade(ok) ==
    LET next == retry_with_backoff(delivery.attempt, ok, NOTIFICATION_MAX_RETRIES) IN
    /\ delivery.pc = "fallback_try"
    /\ IF next = "return"
       THEN Finish(SetStatus(notifications, delivery.row, "FALLBACK_SENT"), delivery.calls + 1)
       ELSE IF next = "sleep"
       THEN /\ delivery' = [delivery EXCEPT !.attempt = @ + 1, !.calls = @ + 1]
            /\ UNCHANGED <<notifications, tasks>>
       ELSE /\ notifications' = SetStatus(notifications, delivery.row, "FAILED")
            /\ delivery' = [Running("fallback", 0, delivery.row) EXCEPT !.calls = delivery.calls + 1]
            /\ UNCHANGED tasks
    /\ UNCHANGED <<tvars, retry, inflight, settings, organization, short_links>>

\* Mutant: a fallback that got through is recorded as SENT.
FallbackTry_Sent(ok) ==
    LET next == retry_with_backoff(delivery.attempt, ok, NOTIFICATION_MAX_RETRIES) IN
    /\ delivery.pc = "fallback_try"
    /\ IF next = "return"
       THEN Finish(SetStatus(notifications, delivery.row, "SENT"), delivery.calls + 1)
       ELSE IF next = "sleep"
       THEN /\ delivery' = [delivery EXCEPT !.attempt = @ + 1, !.calls = @ + 1]
            /\ UNCHANGED <<notifications, tasks>>
       ELSE Finish(SetStatus(notifications, delivery.row, "FAILED"), delivery.calls + 1)
    /\ UNCHANGED <<tvars, retry, inflight, settings, organization, short_links>>

\* _send_sms_fallback: one call of _do_fallback_send inside _retry_with_backoff
FallbackTry(ok) ==
    LET next == retry_with_backoff(delivery.attempt, ok, NOTIFICATION_MAX_RETRIES) IN
    /\ delivery.pc = "fallback_try"
    /\ IF next = "return"
       THEN Finish(SetStatus(notifications, delivery.row, "FALLBACK_SENT"), delivery.calls + 1)
       ELSE IF next = "sleep"
       THEN /\ delivery' = [delivery EXCEPT !.attempt = @ + 1, !.calls = @ + 1]
            /\ UNCHANGED <<notifications, tasks>>
       ELSE Finish(SetStatus(notifications, delivery.row, "FAILED"), delivery.calls + 1)
    /\ UNCHANGED <<tvars, retry, inflight, settings, organization, short_links>>

\* The tables after the AFTER upload of an order's first token, under any
\* settings, with the tasks the upload scheduled still to run.
InitDelivery ==
    \E o \in Orders, sender_phone \in SenderPhones, recipient_phone \in RecipientPhones,
       provider \in Providers, fallback \in BOOLEAN, override \in Overrides :
        LET r0 == IssueToken({}, [x \in Orders |-> "PENDING"],
                             [k \in Orders \X ProofTypes |-> 0], 1, o, FALSE)
            r1 == UploadProof(r0.qr_tokens, r0.order_status, r0.proofs, r0.next_token,
                              r0.resp.token, "AFTER", File(TRUE, TRUE, TRUE),
                              sender_phone, recipient_phone)
        IN  /\ qr_tokens = r1.qr_tokens
            /\ order_status = r1.order_status
            /\ proofs = r1.proofs
            /\ tasks = r1.tasks
            /\ next_token = r1.next_token
            /\ resp = r1.resp
            /\ settings = Settings(provider, fallback)
            /\ organization = Organization(override)
            /\ short_links = {}
            /\ notifications = <<>>
            /\ delivery = Idle
            /\ inflight = NoCalls
            /\ retry = RetryStart(NOTIFICATION_MAX_RETRIES, NOTIFICATION_RETRY_DELAY_SECONDS)

NextDelivery ==
    \/ \E code \in ShortCodes \cup LongCodes : StartDelivery(code)
    \/ \E code \in ShortCodes \cup LongCodes : StartDeliveryRaises(code)
    \/ MockSend
    \/ \E ok \in BOOLEAN : GetPrimaryProvider(ok)
    \/ \E ok \in BOOLEAN : PrimaryTry(ok)
    \/ StartFallback
    \/ \E ok \in BOOLEAN : GetSmsProvider(ok)
    \/ \E ok \in BOOLEAN : FallbackTry(ok)

SpecDelivery == InitDelivery /\ [][NextDelivery]_vars

\* ------------------------------------------------------------ reminder
\* The largest number of Notification rows a run of reminders leaves.
MaxReminders == 2

\* What decrypt_phone and _clean_phone make of the sender's phone: a number,
\* nothing, or an exception.
ReminderPhones == {"ok", "absent", "fail"}

\* The task send_reminder_notification adds: _send_reminder(order_id, phone)
ReminderTask(order_id, phone) == [order_id |-> order_id, type |-> "REMINDER", phone |-> phone]

\* send_reminder_notification(order, background_tasks): the queue after the
\* call, and whether the call raised.
send_reminder_notification(queue, order_id, sender_phone) ==
    IF order_id = NoOrder THEN [tasks |-> queue, raised |-> FALSE]
    ELSE IF sender_phone = "fail" THEN [tasks |-> queue, raised |-> TRUE]
    ELSE IF sender_phone = "ok"
    THEN [tasks |-> Append(queue, ReminderTask(order_id, "sender")), raised |-> FALSE]
    ELSE [tasks |-> queue, raised |-> FALSE]

\* send_reminders for one order: the order has a token and no AFTER proof
\* yet, and send_reminder_notification is called for it.
send_reminder(order_id, sender_phone) ==
    LET r == send_reminder_notification(<<>>, order_id, sender_phone) IN
    /\ delivery.pc = "idle"
    /\ tasks = <<>>
    /\ order_status[order_id] \in {"TOKEN_ISSUED", "PENDING"}
    /\ qr_token(qr_tokens, order_id) # None
    /\ Len(notifications) < MaxReminders
    /\ tasks' = r.tasks
    /\ resp' = [op |-> "send_reminder", order_id |-> order_id, raised |-> r.raised]
    /\ UNCHANGED <<qr_tokens, order_status, proofs, next_token, retry, inflight, dvars>>

\* Mutant: the reminder row is written on the primary channel of the provider.
StartReminder_PrimaryChannel(code) ==
    LET task == Head(tasks)
        t == qr_token(qr_tokens, task.order_id)
    IN  /\ delivery.pc = "idle"
        /\ tasks # <<>>
        /\ task.type = "REMINDER"
        /\ code \in DrawnCodes(short_links)
        /\ short_links' = IF t # None
                          THEN get_or_create_public_proof(short_links, task.order_id,
                                                          t.token, code).links
                          ELSE short_links
        /\ notifications' = Append(notifications,
                                   Notification(task.order_id, "REMINDER", primary_channel(settings)))
        /\ delivery' = [Running("reminder_send", 0, Len(notifications) + 1) EXCEPT !.calls = 0]
        /\ UNCHANGED <<tvars, retry, inflight, tasks, settings, organization>>

\* _send_reminder up to the commit of the PENDING row
StartReminder(code) ==
    LET task == Head(tasks)
        t == qr_token(qr_tokens, task.order_id)
    IN  /\ delivery.pc = "idle"
        /\ tasks # <<>>
        /\ task.type = "REMINDER"
        /\ code \in DrawnCodes(short_links)
        /\ short_links' = IF t # None
                          THEN get_or_create_public_proof(short_links, task.order_id,
                                                          t.token, code).links
                          ELSE short_links
        /\ notifications' = Append(notifications,
                                   Notification(task.order_id, "REMINDER", "SMS"))
        /\ delivery' = [Running("reminder_send", 0, Len(notifications) + 1) EXCEPT !.calls = 0]
        /\ UNCHANGED <<tvars, retry, inflight, tasks, settings, organization>>

\* except Exception of _send_reminder: the row becomes FAILED and the
\* exception is raised again, which ends the loop of BackgroundTasks.
ReminderFailed(calls) ==
    /\ notifications' = SetStatus(notifications, delivery.row, "FAILED")
    /\ tasks' = <<>>
    /\ delivery' = [Idle EXCEPT !.calls = calls]

\* _send_reminder: the mock branch, or get_sms_provider() returns a provider
\* or raises
ReminderSend(ok) ==
    /\ delivery.pc = "reminder_send"
    /\ IF settings.MESSAGING_PROVIDER = "mock"
       THEN Finish(SetStatus(notifications, delivery.row, "MOCK_SENT"), delivery.calls)
       ELSE IF ok
       THEN /\ delivery' = Running("reminder_try", 0, delivery.row)
            /\ UNCHANGED <<notifications, tasks>>
       ELSE ReminderFailed(delivery.calls)
    /\ UNCHANGED <<tvars, retry, inflight, settings, organization, short_links>>

\* _send_reminder: one call of _do_reminder_send inside _retry_with_backoff
ReminderTry(ok) ==
    LET next == retry_with_backoff(delivery.attempt, ok, NOTIFICATION_MAX_RETRIES) IN
    /\ delivery.pc = "reminder_try"
    /\ IF next = "return"
       THEN Finish(SetStatus(notifications, delivery.row, "SENT"), delivery.calls + 1)
       ELSE IF next = "sleep"
       THEN /\ delivery' = [delivery EXCEPT !.attempt = @ + 1, !.calls = @ + 1]
            /\ UNCHANGED <<notifications, tasks>>
       ELSE ReminderFailed(delivery.calls + 1)
    /\ UNCHANGED <<tvars, retry, inflight, settings, organization, short_links>>

\* Both orders have a token and no proof; any settings.
InitReminder ==
    \E provider \in Providers, fallback \in BOOLEAN, override \in Overrides :
        LET r0 == IssueToken({}, [x \in Orders |-> "PENDING"],
                             [k \in Orders \X ProofTypes |-> 0], 1, 1, FALSE)
            r1 == IssueToken(r0.qr_tokens, r0.order_status, r0.proofs, r0.next_token, 2, FALSE)
        IN  /\ qr_tokens = r1.qr_tokens
            /\ order_status = r1.order_status
            /\ proofs = r1.proofs
            /\ tasks = <<>>
            /\ next_token = r1.next_token
            /\ resp = r1.resp
            /\ settings = Settings(provider, fallback)
            /\ organization = Organization(override)
            /\ short_links = {}
            /\ notifications = <<>>
            /\ delivery = Idle
            /\ inflight = NoCalls
            /\ retry = RetryStart(NOTIFICATION_MAX_RETRIES, NOTIFICATION_RETRY_DELAY_SECONDS)

NextReminder ==
    \/ \E o \in Orders, p \in ReminderPhones : send_reminder(o, p)
    \/ \E code \in ShortCodes \cup LongCodes : StartReminder(code)
    \/ \E ok \in BOOLEAN : ReminderSend(ok)
    \/ \E ok \in BOOLEAN : ReminderTry(ok)

SpecReminder == InitReminder /\ [][NextReminder]_vars

\* ------------------------------------------------------------ all deliveries
\* The background tasks of either request: the two deliveries of an AFTER
\* upload, or the reminders.
InitDeliveries == InitDelivery \/ InitReminder

NextDeliveries == NextDelivery \/ NextReminder

SpecDeliveries == InitDeliveries /\ [][NextDeliveries]_vars

\* A delivery that has begun is awaited to its end: whenever it has a step to
\* take (its provider call returned or failed, its sleep is over), the step
\* is taken.
DeliveryStep ==
    \/ MockSend
    \/ \E ok \in BOOLEAN : GetPrimaryProvider(ok)
    \/ \E ok \in BOOLEAN : PrimaryTry(ok)
    \/ StartFallback
    \/ \E ok \in BOOLEAN : GetSmsProvider(ok)
    \/ \E ok \in BOOLEAN : FallbackTry(ok)
    \/ \E ok \in BOOLEAN : ReminderSend(ok)
    \/ \E ok \in BOOLEAN : ReminderTry(ok)

SpecDeliveriesFair == InitDeliveries /\ [][NextDeliveries]_vars /\ WF_vars(DeliveryStep)

\* ------------------------------------------------------------ uploads at the same time
\* The number of upload requests handled at the same time.
MaxCalls == 2

\* create_proof(token, file, background_tasks, proof_type) on entry; order_id
\* is its local variable order, status and detail what the route answers.
ProofCall(token, proof_type, writable) ==
    [op |-> "create_proof", pc |-> "check", token |-> token, proof_type |-> proof_type,
     writable |-> writable, order_id |-> NoOrder, status |-> 0, detail |-> ""]

ProofCalls == {ProofCall(t, pt, w) : t \in 1..2, pt \in {"BEFORE", "AFTER"}, w \in BOOLEAN}

\* The call has ended with the route's answer.
Answered(c, status, detail) == [c EXCEPT !.pc = "done", !.status = status, !.detail = detail]

\* create_proof from its entry to await file.read(): the token is validated
\* and a proof of the same type is looked for.
CreateProofCheck(p) ==
    LET c == inflight[p]
        order == get_order_by_token(qr_tokens, c.token)
        c1 == IF order = NoOrder
              THEN Answered(c, 404, "Invalid or expired token.")
              ELSE IF HasProof(proofs, order, c.proof_type)
              THEN Answered(c, 404, c.proof_type \o " proof already uploaded for this order.")
              ELSE [c EXCEPT !.pc = "save", !.order_id = order]
    IN  /\ c.pc = "check"
        /\ inflight' = [inflight EXCEPT ![p] = c1]
        /\ resp' = IF c1.pc = "done" THEN UploadOut(c1.status, c1.detail, None) ELSE resp
        /\ UNCHANGED <<qr_tokens, order_status, proofs, next_token, tasks, dvars, retry>>

\* Mutant: the token invalidation is committed on its own, before the commit
\* of the Proof row and the status.
CreateProofSave_TokenFirst(p, commit_ok, sender_phone, recipient_phone) ==
    LET c == inflight[p]
        r == CreateProofFrom(qr_tokens, order_status, proofs, next_token, c.order_id,
                             c.token, c.proof_type, sender_phone, recipient_phone)
    IN  /\ c.pc = "save"
        /\ IF ~c.writable
           THEN /\ inflight' = [inflight EXCEPT ![p] = Answered(c, 500, "UPLOAD_FAILED: Failed to save file.")]
                /\ resp' = UploadOut(500, "UPLOAD_FAILED: Failed to save file.", None)
                /\ UNCHANGED <<qr_tokens, order_status, proofs, next_token, tasks>>
           ELSE IF ~commit_ok
           THEN /\ inflight' = [inflight EXCEPT ![p] = Answered(c, 500, "UPLOAD_FAILED: An unexpected error occurred.")]
                /\ resp' = UploadOut(500, "UPLOAD_FAILED: An unexpected error occurred.", None)
                /\ qr_tokens' = r.qr_tokens
                /\ UNCHANGED <<order_status, proofs, next_token, tasks>>
           ELSE /\ inflight' = [inflight EXCEPT ![p] = Answered(c, 200, "success")]
                /\ qr_tokens' = r.qr_tokens
                /\ order_status' = r.order_status
                /\ proofs' = r.proofs
                /\ tasks' = r.tasks
                /\ resp' = r.resp
                /\ UNCHANGED next_token
        /\ UNCHANGED <<dvars, retry>>

\* create_proof after await file.read(): the file is written, the Proof row
\* added, for an AFTER proof the status set and the token invalidated, all of
\* it committed in one transaction, and the deliveries scheduled.  A file that
\* cannot be written raises IOError before the row is added; a commit that
\* raises leaves the transaction uncommitted, and the session is closed.
CreateProofSave(p, commit_ok, sender_phone, recipient_phone) ==
    LET c == inflight[p]
        r == CreateProofFrom(qr_tokens, order_status, proofs, next_token, c.order_id,
                             c.token, c.proof_type, sender_phone, recipient_phone)
    IN  /\ c.pc = "save"
        /\ IF ~c.writable
           THEN /\ inflight' = [inflight EXCEPT ![p] = Answered(c, 500, "UPLOAD_FAILED: Failed to save file.")]
                /\ resp' = UploadOut(500, "UPLOAD_FAILED: Failed to save file.", None)
                /\ UNCHANGED <<qr_tokens, order_status, proofs, next_token, tasks>>
           ELSE IF ~commit_ok
           THEN /\ inflight' = [inflight EXCEPT ![p] = Answered(c, 500, "UPLOAD_FAILED: An unexpected error occurred.")]
                /\ resp' = UploadOut(500, "UPLOAD_FAILED: An unexpected error occurred.", None)
                /\ UNCHANGED <<qr_tokens, order_status, proofs, next_token, tasks>>
           ELSE /\ inflight' = [inflight EXCEPT ![p] = Answered(c, 200, "success")]
                /\ qr_tokens' = r.qr_tokens
                /\ order_status' = r.order_status
                /\ proofs' = r.proofs
                /\ tasks' = r.tasks
                /\ resp' = r.resp
                /\ UNCHANGED next_token
        /\ UNCHANGED <<dvars, retry>>

\* Both orders have a valid token and no proof; MaxCalls uploads have passed
\* the route's file checks and enter create_proof.
InitUploads ==
    LET r0 == IssueToken({}, [x \in Orders |-> "PENDING"],
                         [k \in Orders \X ProofTypes |-> 0], 1, 1, FALSE)
        r1 == IssueToken(r0.qr_tokens, r0.order_status, r0.proofs, r0.next_token, 2, FALSE)
    IN  /\ qr_tokens = r1.qr_tokens
        /\ order_status = r1.order_status
        /\ proofs = r1.proofs
        /\ tasks = <<>>
        /\ next_token = r1.next_token
        /\ resp = r1.resp
        /\ settings = Settings("mock", TRUE)
        /\ organization = Organization("None")
        /\ short_links = {}
        /\ notifications = <<>>
        /\ delivery = Idle
        /\ retry = RetryStart(NOTIFICATION_MAX_RETRIES, NOTIFICATION_RETRY_DELAY_SECONDS)
        /\ inflight \in [1..MaxCalls -> ProofCalls]

NextUploads ==
    \/ \E p \in 1..MaxCalls : CreateProofCheck(p)
    \/ \E p \in 1..MaxCalls, commit_ok \in BOOLEAN, sender_phone \in SenderPhones,
          recipient_phone \in RecipientPhones :
            CreateProofSave(p, commit_ok, sender_phone, recipient_phone)

SpecUploads == InitUploads /\ [][NextUploads]_vars

\* ------------------------------------------------------------ issue_token at the same time
\* issue_token(order_id, force) on entry; existing is its local variable, token
\* the string of the row it inserted, status and detail what the caller gets.
IssueCall(order_id, force) ==
    [op |-> "issue_token", pc |-> "read", order_id |-> order_id, force |-> force,
     existing |-> None, token |-> NeverIssued, status |-> 0, detail |-> ""]

IssueCalls == {IssueCall(o, f) : o \in Orders, f \in BOOLEAN}

\* issue_token: the order and its token row are read; a valid token is
\* returned when the call is not forced.
IssueRead(p) ==
    LET c == inflight[p]
        existing == qr_token(qr_tokens, c.order_id)
        c1 == IF existing # None /\ existing.is_valid /\ ~c.force
              THEN [c EXCEPT !.pc = "done", !.status = 200, !.token = existing.token]
              ELSE IF existing # None
              THEN [c EXCEPT !.pc = "delete", !.existing = existing]
              ELSE [c EXCEPT !.pc = "insert"]
    IN  /\ c.pc = "read"
        /\ inflight' = [inflight EXCEPT ![p] = c1]
        /\ UNCHANGED <<tvars, tasks, dvars, retry>>

\* issue_token: db.delete(existing); db.commit().  When the row is no longer
\* there the DELETE matches nothing, which the session either reports
\* (StaleDataError) or lets pass.
IssueDelete(p, reports) ==
    LET c == inflight[p]
        there == \E r \in qr_tokens : r.token = c.existing.token
    IN  /\ c.pc = "delete"
        /\ IF there
           THEN /\ qr_tokens' = {r \in qr_tokens : r.token # c.existing.token}
                /\ inflight' = [inflight EXCEPT ![p] = [c EXCEPT !.pc = "insert"]]
           ELSE /\ UNCHANGED qr_tokens
                /\ inflight' = [inflight EXCEPT ![p] =
                        IF reports
                        THEN [c EXCEPT !.pc = "done", !.status = 500, !.detail = "StaleDataError"]
                        ELSE [c EXCEPT !.pc = "insert"]]
        /\ UNCHANGED <<order_status, proofs, next_token, resp, tasks, dvars, retry>>

\* issue_token: create_token_for_order, whose commit the unique constraints
\* let pass or reject.
IssueInsert(p) ==
    LET c == inflight[p]
        made == create_token_for_order(qr_tokens, c.order_id, generate_token(next_token))
    IN  /\ c.pc = "insert"
        /\ next_token' = next_token + 1
        /\ qr_tokens' = made.rows
        /\ inflight' = [inflight EXCEPT ![p] =
                IF made.ok
                THEN [c EXCEPT !.pc = "status", !.token = made.row.token]
                ELSE [c EXCEPT !.pc = "done", !.status = 500, !.detail = "IntegrityError"]]
        /\ UNCHANGED <<order_status, proofs, resp, tasks, dvars, retry>>

\* issue_token: order.status = TOKEN_ISSUED; db.commit(); return
IssueStatus(p) ==
    LET c == inflight[p] IN
    /\ c.pc = "status"
    /\ order_status' = [order_status EXCEPT ![c.order_id] = "TOKEN_ISSUED"]
    /\ inflight' = [inflight EXCEPT ![p] = [c EXCEPT !.pc = "done", !.status = 200]]
    /\ resp' = TokenOut(c.order_id, c.force, c.token)
    /\ UNCHANGED <<qr_tokens, proofs, next_token, tasks, dvars, retry>>

\* Order 1 starts without a token, with a valid token, or with the token an
\* AFTER proof has invalidated; MaxCalls calls of issue_token are entered.
InitIssue ==
    \E start \in {"none", "valid", "invalidated"} :
        LET e  == Result({}, [x \in Orders |-> "PENDING"],
                         [k \in Orders \X ProofTypes |-> 0], 1, <<>>, [op |-> "none"])
            r0 == IssueToken(e.qr_tokens, e.order_status, e.proofs, e.next_token, 1, FALSE)
            r1 == UploadProof(r0.qr_tokens, r0.order_status, r0.proofs, r0.next_token,
                              r0.resp.token, "AFTER", File(TRUE, TRUE, TRUE), "ok", "ok")
            r  == IF start = "none" THEN e ELSE IF start = "valid" THEN r0 ELSE r1
        IN  /\ qr_tokens = r.qr_tokens
            /\ order_status = r.order_status
            /\ proofs = r.proofs
            /\ tasks = <<>>
            /\ next_token = r.next_token
            /\ resp = r.resp
            /\ settings = Settings("mock", TRUE)
            /\ organization = Organization("None")
            /\ short_links = {}
            /\ notifications = <<>>
            /\ delivery = Idle
            /\ retry = RetryStart(NOTIFICATION_MAX_RETRIES, NOTIFICATION_RETRY_DELAY_SECONDS)
            /\ inflight \in [1..MaxCalls -> IssueCalls]

NextIssue ==
    \/ \E p \in 1..MaxCalls : IssueRead(p)
    \/ \E p \in 1..MaxCalls, reports \in BOOLEAN : IssueDelete(p, reports)
    \/ \E p \in 1..MaxCalls : IssueInsert(p)
    \/ \E p \in 1..MaxCalls : IssueStatus(p)

SpecIssue == InitIssue /\ [][NextIssue]_vars

\* ------------------------------------------------------------ one retry run
\* One call of the operation inside _retry_with_backoff, with its outcome.
RetryCall(outcome) ==
    /\ retry.pc = "call"
    /\ retry' = RetryStep(retry, outcome)
    /\ UNCHANGED <<tvars, tasks, dvars, inflight>>

\* A run of _retry_with_backoff is entered with some max_retries and
\* base_delay; the tables are as they are when the server starts.
InitRetry ==
    /\ qr_tokens = {}
    /\ order_status = [o \in Orders |-> "PENDING"]
    /\ proofs = [k \in Orders \X ProofTypes |-> 0]
    /\ tasks = <<>>
    /\ next_token = 1
    /\ resp = [op |-> "none"]
    /\ settings = Settings("mock", TRUE)
    /\ organization = Organization("None")
    /\ short_links = {}
    /\ notifications = <<>>
    /\ delivery = Idle
    /\ inflight = NoCalls
    /\ \E max_retries \in 0..MaxRetries, base_delay \in BaseDelays :
          retry = RetryStart(max_retries, base_delay)

NextRetry == \E outcome \in Outcomes : RetryCall(outcome)

SpecRetry == InitRetry /\ [][NextRetry]_vars

\* ------------------------------------------------------------ short links
\* The orders and the tokens the calls of a run are about.
LinkOrders == Orders \cup {3}
LinkTokens == {1, 2}

\* What a caller types for a code: the code, the code in lower case, the same
\* between blanks, nothing, blanks, and a code that was never generated.
RawCodes ==
    UNION {{c, lower(c), <<" ">> \o lower(c) \o <<" ">>} : c \in ShortCodes \cup LongCodes}
    \cup {<<>>, <<" ", " ">>, <<"I", "N", "V", "A", "L", "I", "D">>}

\* a call of ShortLinkService.get_or_create_public_proof
get_or_create(order_id, token, code) ==
    LET r == get_or_create_public_proof(short_links, order_id, token, code)
        branch == IF r.link \in short_links THEN "existing"
                  ELSE IF Cardinality(r.links) = Cardinality(short_links) THEN "updated"
                  ELSE "created"
    IN
    /\ code \in DrawnCodes(short_links)
    /\ short_links' = r.links
    /\ resp' = [op |-> "get_or_create_public_proof", raised |-> FALSE, link |-> r.link,
                branch |-> branch]
    /\ UNCHANGED <<qr_tokens, order_status, proofs, next_token, tasks, retry, inflight,
                   settings, organization, notifications, delivery>>

\* a call of ShortLinkService.get_or_create_public_proof whose commit raises
\* because the code is that of a stored row: what the call does if the table
\* has a unique index on code (its definition is not among the sources)
get_or_create_raises(order_id, token, code) ==
    /\ code \in DrawnCodes(short_links)
    /\ get_existing_for_order(short_links, order_id) = None
    /\ \E l \in short_links : l.code = code
    /\ resp' = [op |-> "get_or_create_public_proof", raised |-> TRUE, link |-> None,
                branch |-> "created"]
    /\ UNCHANGED <<qr_tokens, order_status, proofs, next_token, tasks, retry, inflight, dvars>>

\* The clicks counted so far, over all rows.
RECURSIVE Clicks(_)
Clicks(links) ==
    IF links = {} THEN 0
    ELSE LET l == CHOOSE x \in links : TRUE IN l.click_count + Clicks(links \ {l})

\* resolve_short (GET /public/s/{code})
resolve_short(raw) ==
    /\ Clicks(short_links) < MaxClicks
    /\ \E pick \in short_links \cup {None} :
          LET r == ResolveShort(short_links, raw, pick) IN
          /\ short_links' = r.links
          /\ resp' = r.resp
    /\ UNCHANGED <<qr_tokens, order_status, proofs, next_token, tasks, retry, inflight,
                   settings, organization, notifications, delivery>>

\* resolve_short when the update of the metrics does not go through
resolve_short_update(raw, update) ==
    /\ Clicks(short_links) < MaxClicks
    /\ update \in Updates \ {"ok"}
    /\ \E pick \in short_links \cup {None} :
          LET r == ResolveShortWith(short_links, raw, pick, update) IN
          /\ short_links' = r.links
          /\ resp' = [op |-> "resolve_short_update", update |-> update, code |-> normalize_code(raw),
                      status |-> r.resp.status, detail |-> r.resp.detail,
                      target_path |-> r.resp.target_path,
                      target_token |-> r.resp.target_token]
    /\ UNCHANGED <<qr_tokens, order_status, proofs, next_token, tasks, retry, inflight,
                   settings, organization, notifications, delivery>>

\* The tables are as they are when the server starts.
InitLinks ==
    /\ qr_tokens = {}
    /\ order_status = [o \in Orders |-> "PENDING"]
    /\ proofs = [k \in Orders \X ProofTypes |-> 0]
    /\ tasks = <<>>
    /\ next_token = 1
    /\ resp = [op |-> "none"]
    /\ settings = Settings("mock", TRUE)
    /\ organization = Organization("None")
    /\ short_links = {}
    /\ notifications = <<>>
    /\ delivery = Idle
    /\ inflight = NoCalls
    /\ retry = RetryStart(NOTIFICATION_MAX_RETRIES, NOTIFICATION_RETRY_DELAY_SECONDS)

\* Links are made for three orders, so that the second one can be pushed to
\* the last-resort path and the third one can draw its code again.
NextLinks ==
    \/ \E o \in LinkOrders, t \in LinkTokens, code \in ShortCodes \cup LongCodes :
            get_or_create(o, t, code)
    \/ \E o \in LinkOrders, t \in LinkTokens, code \in ShortCodes \cup LongCodes :
            get_or_create_raises(o, t, code)

SpecLinks == InitLinks /\ [][NextLinks]_vars

\* Links are made for two orders and are resolved.
NextResolve ==
    \/ \E o \in Orders, t \in LinkTokens, code \in ShortCodes \cup LongCodes :
            get_or_create(o, t, code)
    \/ \E raw \in RawCodes : resolve_short(raw)

SpecResolve == InitLinks /\ [][NextResolve]_vars

\* Links are made and resolved, and the update of the metrics can fail.
NextMetrics ==
    \/ NextResolve
    \/ \E raw \in RawCodes, update \in Updates : resolve_short_update(raw, update)

SpecMetrics == InitLinks /\ [][NextMetrics]_vars

\* ------------------------------------------------- short links and reissue
\* get_order_detail (GET /orders/{order_id}): for an order that has a token
\* row the short link is looked up or made for that token.
get_order_detail(order_id, code) ==
    LET qr == qr_token(qr_tokens, order_id)
        r == get_or_create_public_proof(short_links, order_id, qr.token, code)
    IN
    /\ code \in DrawnCodes(short_links)
    /\ IF qr = None
       THEN /\ resp' = [op |-> "get_order_detail", order_id |-> order_id, token |-> NoOrder,
                        short_code |-> <<>>]
            /\ UNCHANGED short_links
       ELSE /\ resp' = [op |-> "get_order_detail", order_id |-> order_id, token |-> qr.token,
                        short_code |-> r.link.code]
            /\ short_links' = r.links
    /\ UNCHANGED <<qr_tokens, order_status, proofs, next_token, tasks, retry, inflight,
                   settings, organization, notifications, delivery>>

\* Tokens are issued and reissued, order pages are opened, short codes are
\* resolved.
NextReissue ==
    \/ \E o \in Orders, f \in BOOLEAN : issue_token(o, f)
    \/ \E o \in Orders, code \in ShortCodes \cup LongCodes : get_order_detail(o, code)
    \/ \E raw \in RawCodes : resolve_short(raw)

SpecReissue == InitLinks /\ [][NextReissue]_vars

\* --------------------------------------------- making a link, draw by draw
\* range(12) of get_or_create_public_proof
CODE_ATTEMPTS == 12

\* One call of get_or_create_public_proof with its locals: the draws made so
\* far, the code drawn last, the link returned.
LinkCall(order_id, token) ==
    [op |-> "get_or_create_public_proof", pc |-> "lookup", order_id |-> order_id,
     token |-> token, attempt |-> 0, code |-> <<>>, link |-> None, raised |-> FALSE]

\* The call has returned or raised.
LinkDone(c, link, raised) == [c EXCEPT !.pc = "done", !.link = link, !.raised = raised]

\* a caller calls get_or_create_public_proof
LinkBegin(order_id, token) ==
    /\ IF inflight = NoCalls THEN TRUE ELSE inflight[1].pc = "done"
    /\ inflight' = <<LinkCall(order_id, token)>>
    /\ UNCHANGED <<tvars, tasks, retry, dvars>>

\* get_existing_for_order and the branch for an order that has a link
LinkLookup ==
    LET c == inflight[1]
        r == get_or_create_public_proof(short_links, c.order_id, c.token, <<>>)
    IN
    /\ inflight # NoCalls
    /\ c.pc = "lookup"
    /\ IF get_existing_for_order(short_links, c.order_id) # None
       THEN /\ short_links' = r.links
            /\ inflight' = <<LinkDone(c, r.link, FALSE)>>
       ELSE /\ inflight' = <<[c EXCEPT !.pc = "draw"]>>
            /\ UNCHANGED short_links
    /\ UNCHANGED <<tvars, tasks, retry, settings, organization, notifications, delivery>>

\* one pass of the loop: _generate_code(7), the lookup of the code, and the
\* insert when no row has it
LinkDraw(code) ==
    LET c == inflight[1]
        r == get_or_create_public_proof(short_links, c.order_id, c.token, code)
    IN
    /\ inflight # NoCalls
    /\ c.pc = "draw"
    /\ c.attempt < CODE_ATTEMPTS
    /\ code \in ShortCodes
    /\ IF \A l \in short_links : l.code # code
       THEN /\ short_links' = r.links
            /\ inflight' = <<LinkDone([c EXCEPT !.attempt = @ + 1, !.code = code], r.link, FALSE)>>
       ELSE /\ inflight' = <<[c EXCEPT !.attempt = @ + 1, !.code = code]>>
            /\ UNCHANGED short_links
    /\ UNCHANGED <<tvars, tasks, retry, settings, organization, notifications, delivery>>

\* the last resort: _generate_code(9) and the insert, with no lookup.  When a
\* row has the code, the commit stores a second row with it, or raises if
\* the table has a unique index on code (its definition is not among the
\* sources).
LinkLastResort(code, unique) ==
    LET c == inflight[1]
        r == get_or_create_public_proof(short_links, c.order_id, c.token, code)
    IN
    /\ inflight # NoCalls
    /\ c.pc = "draw"
    /\ c.attempt = CODE_ATTEMPTS
    /\ code \in LongCodes
    /\ IF unique /\ \E l \in short_links : l.code = code
       THEN /\ inflight' = <<LinkDone([c EXCEPT !.code = code], None, TRUE)>>
            /\ UNCHANGED short_links
       ELSE /\ short_links' = r.links
            /\ inflight' = <<LinkDone([c EXCEPT !.code = code], r.link, FALSE)>>
    /\ UNCHANGED <<tvars, tasks, retry, settings, organization, notifications, delivery>>

\* Links are made for three orders, one call after the other.
NextCreate ==
    \/ \E o \in LinkOrders, t \in LinkTokens : LinkBegin(o, t)
    \/ LinkLookup
    \/ \E code \in ShortCodes : LinkDraw(code)
    \/ \E code \in LongCodes, unique \in BOOLEAN : LinkLastResort(code, unique)

SpecCreate == InitLinks /\ [][NextCreate]_vars


\* ================================================================ claims
GoodFile == File(TRUE, TRUE, TRUE)

\* Token strings generate_token has returned so far
Issued == 1..(next_token - 1)

ValidRows(rows, order_id) == {r \in rows : r.order_id = order_id /\ r.is_valid}

\* C1  Token uniqueness: in every state reachable by issue_token,
\* get_labels, bulk_generate_tokens, revoke_token and upload_proof, each
\* order has at most one qr_tokens row with is_valid = TRUE.
C1_TokenUniqueness ==
    \A o \in Orders : Cardinality(ValidRows(qr_tokens, o)) <= 1

\* An order whose first token was replaced holds exactly one valid row.
C1_Witness ==
    /\ next_token = 3
    /\ qr_tokens = {QRToken(2, 1)}
    /\ resp.op \in {"issue_token", "get_labels", "bulk_generate_tokens"}

\* The last request recorded an AFTER proof with token t.
AfterRecordedWith(t) ==
    /\ resp.op = "upload_proof"
    /\ resp.status = 200
    /\ resp.body.proof_type = "AFTER"
    /\ resp.body.token = t

\* C2  One-time use: a step that records an AFTER proof with token T leaves
\* T not validating; a token string that was returned by generate_token and
\* does not validate never validates again, whatever step follows; and in
\* every such state an upload with T fails with the invalid-token error.
C2_OneTimeUse ==
    /\ [](\A t \in Issued :
            ~validate_token(qr_tokens, t) =>
               /\ get_order_by_token(qr_tokens, t) = NoOrder
               /\ \A pt \in ProofTypes :
                    LET r == UploadProof(qr_tokens, order_status, proofs, next_token,
                                         t, pt, GoodFile, "ok", "ok")
                    IN  /\ r.resp.status = 404
                        /\ r.resp.detail = "Invalid or expired token."
                        /\ r.proofs = proofs)
    /\ [][\A t \in 1..MaxTokens :
            /\ (AfterRecordedWith(t)' /\ proofs' # proofs)
                  => ~validate_token(qr_tokens', t)
            /\ (t < next_token /\ ~validate_token(qr_tokens, t))
                  => ~validate_token(qr_tokens', t)
       ]_vars

\* A second upload with the token of a recorded AFTER proof was rejected.
C2_Witness ==
    /\ resp.op = "upload_proof"
    /\ resp.status = 404
    /\ resp.detail = "Invalid or expired token."
    /\ \E r \in qr_tokens : ~r.is_valid /\ ~r.revoked_at /\ proofs[Proof(r.order_id, "AFTER")] = 1

\* C3  Type gating, non-terminal types: a successful upload of a BEFORE,
\* RECEIPT, DAMAGE or OTHER proof leaves every order status and every token
\* row unchanged, so the token still validates, and schedules no task; an
\* AFTER upload with the same token right after it succeeds too when the
\* order has no AFTER proof yet.
C3_NonTerminalTypes ==
    \A t \in Issued, pt \in ProofTypes \ {"AFTER"} :
        LET r == UploadProof(qr_tokens, order_status, proofs, next_token,
                             t, pt, GoodFile, "ok", "ok")
            o == get_order_by_token(qr_tokens, t)
            r2 == UploadProof(r.qr_tokens, r.order_status, r.proofs, r.next_token,
                              t, "AFTER", GoodFile, "ok", "ok")
        IN  r.resp.status = 200 =>
              /\ r.order_status = order_status
              /\ r.qr_tokens = qr_tokens
              /\ validate_token(r.qr_tokens, t)
              /\ r.tasks = <<>>
              /\ r.proofs[Proof(o, pt)] = proofs[Proof(o, pt)] + 1
              /\ ~HasProof(proofs, o, "AFTER") => r2.resp.status = 200

\* A BEFORE upload was followed by an AFTER upload with the same token.
C3_Witness ==
    /\ AfterRecordedWith(1)
    /\ proofs[Proof(1, "BEFORE")] = 1
    /\ proofs[Proof(1, "AFTER")] = 1
    /\ next_token = 2

\* The tasks of type ty among tsk
TasksOfType(tsk, ty) == SelectSeq(tsk, LAMBDA x : x.type = ty)

\* C4  Type gating, terminal type: a successful AFTER upload with token T
\* sets the order status to PROOF_UPLOADED, adds one AFTER proof, leaves T
\* not validating, and schedules one delivery for the sender when the sender
\* phone decrypts and one for the recipient when a recipient phone is present
\* and decrypts, each for the order of T, the sender's first; it schedules
\* nothing else.
C4_TerminalType ==
    \A t \in Issued, sender_phone \in SenderPhones, recipient_phone \in RecipientPhones :
        LET r == UploadProof(qr_tokens, order_status, proofs, next_token,
                             t, "AFTER", GoodFile, sender_phone, recipient_phone)
            o == get_order_by_token(qr_tokens, t)
            S == TasksOfType(r.tasks, "SENDER")
            R == TasksOfType(r.tasks, "RECIPIENT")
        IN  r.resp.status = 200 =>
              /\ r.order_status = [order_status EXCEPT ![o] = "PROOF_UPLOADED"]
              /\ r.proofs = [proofs EXCEPT ![Proof(o, "AFTER")] = 1]
              /\ ~validate_token(r.qr_tokens, t)
              /\ get_order_by_token(r.qr_tokens, t) = NoOrder
              /\ Len(S) = (IF sender_phone = "ok" THEN 1 ELSE 0)
              /\ Len(R) = (IF recipient_phone = "ok" THEN 1 ELSE 0)
              /\ r.tasks = S \o R
              /\ \A i \in 1..Len(r.tasks) : r.tasks[i].order_id = o

\* An AFTER upload for an order with a recipient phone scheduled both deliveries.
C4_Witness ==
    /\ AfterRecordedWith(1)
    /\ resp.body.recipient_phone = "ok"
    /\ tasks = <<Task(1, "SENDER"), Task(1, "RECIPIENT")>>
    /\ order_status[1] = "PROOF_UPLOADED"

\* C4 as stated: after every successful AFTER upload the order is
\* PROOF_UPLOADED, the token does not validate, and the request has scheduled
\* exactly one sender delivery, one recipient delivery when a recipient phone
\* is present, and so at least one delivery.
C4_AlwaysNotifies ==
    (resp.op = "upload_proof" /\ resp.status = 200 /\ resp.body.proof_type = "AFTER") =>
        LET t == get_token(qr_tokens, resp.body.token) IN
        /\ order_status[t.order_id] = "PROOF_UPLOADED"
        /\ ~t.is_valid
        /\ Len(TasksOfType(tasks, "SENDER")) = 1
        /\ resp.body.recipient_phone # "absent" => Len(TasksOfType(tasks, "RECIPIENT")) = 1
        /\ tasks # <<>>

\* C5  Duplicate rejection: an upload for an order that already has a proof
\* of the same type fails with the duplicate error of that type (not the
\* invalid-token error), adds no proof row and no task, and leaves every token
\* row and every order status as it was; so no order ever has two proofs of
\* one type.
C5_DuplicateRejection ==
    /\ \A k \in DOMAIN proofs : proofs[k] <= 1
    /\ \A t \in Issued, pt \in ProofTypes :
        LET o == get_order_by_token(qr_tokens, t)
            r == UploadProof(qr_tokens, order_status, proofs, next_token,
                             t, pt, GoodFile, "ok", "ok")
        IN  (o # NoOrder /\ HasProof(proofs, o, pt)) =>
              /\ r.resp.status # 200
              /\ r.resp.detail = pt \o " proof already uploaded for this order."
              /\ r.resp.detail # "Invalid or expired token."
              /\ r.proofs = proofs
              /\ r.qr_tokens = qr_tokens
              /\ r.order_status = order_status
              /\ r.tasks = <<>>

\* A second BEFORE upload with a token that still validates was rejected.
C5_Witness ==
    /\ resp.op = "upload_proof"
    /\ resp.status # 200
    /\ resp.detail = "BEFORE proof already uploaded for this order."
    /\ \E r \in qr_tokens : r.is_valid /\ proofs[Proof(r.order_id, "BEFORE")] = 1

\* C7  Idempotent reissue: issue_token(order, force = false) called twice in
\* a row returns the same token string both times, and the second call
\* leaves every table as the first call left it and generates no token,
\* whether the order started with no token, a valid one or an invalid one.
C7_IdempotentReissue ==
    \A o \in Orders :
        LET r1 == IssueToken(qr_tokens, order_status, proofs, next_token, o, FALSE)
            r2 == IssueToken(r1.qr_tokens, r1.order_status, r1.proofs, r1.next_token,
                             o, FALSE)
        IN  /\ r1.resp.status = 200
            /\ r2.resp.status = 200
            /\ r2.resp.token = r1.resp.token
            /\ r2.qr_tokens = r1.qr_tokens
            /\ r2.order_status = r1.order_status
            /\ r2.proofs = r1.proofs
            /\ r2.next_token = r1.next_token

\* issue_token(force = false) answered for an order whose first token an
\* AFTER proof had made invalid.
C7_Witness ==
    /\ resp.op = "issue_token"
    /\ ~resp.force
    /\ resp.token = 2
    /\ qr_tokens = {QRToken(2, resp.order_id)}
    /\ proofs[Proof(resp.order_id, "AFTER")] = 1

\* C8  Token validity is one-directional: no step turns is_valid of a row
\* from false to true; a token string that was issued and for which
\* get_order_by_token returns None (revoked, invalidated after an AFTER
\* proof, or deleted by a reissue) gets None in every later state; and
\* invalidate_token_after_proof on an invalid or unknown token changes nothing.
C8_OneDirectional ==
    /\ [](\A t \in Presented :
            ~validate_token(qr_tokens, t) =>
                invalidate_token_after_proof(qr_tokens, t) = qr_tokens)
    /\ [][/\ \A r \in qr_tokens : \A q \in qr_tokens' :
                (~r.is_valid /\ q.token = r.token) => ~q.is_valid
          /\ \A t \in 1..MaxTokens :
                (t < next_token /\ get_order_by_token(qr_tokens, t) = NoOrder)
                    => get_order_by_token(qr_tokens', t) = NoOrder
       ]_vars

\* The first token was deleted by a reissue and the second one revoked.
C8_Witness ==
    /\ next_token = 3
    /\ \E o \in Orders :
          qr_tokens = {[token |-> 2, order_id |-> o, is_valid |-> FALSE, revoked_at |-> TRUE]}
    /\ resp.op = "revoke_token"

\* C9  Forced reissue: issue_token(order, force = true) on an order that has
\* a token row removes that row and adds one valid row with a new token
\* string for the order, sets the order status to TOKEN_ISSUED and touches
\* no other order; afterwards the order has exactly one row, the returned
\* token validates to the order and the previous string does not validate.
C9_ForcedReissue ==
    \A o \in Orders :
        LET old == qr_token(qr_tokens, o)
            r == IssueToken(qr_tokens, order_status, proofs, next_token, o, TRUE)
            mine == {x \in r.qr_tokens : x.order_id = o}
        IN  old # None =>
              /\ r.resp.status = 200
              /\ old \notin r.qr_tokens
              /\ get_token(r.qr_tokens, old.token) = None
              /\ ~validate_token(r.qr_tokens, old.token)
              /\ Cardinality(mine) = 1
              /\ \A x \in mine : x.is_valid /\ x.token = r.resp.token /\ x.token # old.token
              /\ get_order_by_token(r.qr_tokens, r.resp.token) = o
              /\ r.order_status = [order_status EXCEPT ![o] = "TOKEN_ISSUED"]
              /\ {x \in r.qr_tokens : x.order_id # o} = {x \in qr_tokens : x.order_id # o}

\* A forced reissue replaced the token of an order that has an AFTER proof.
C9_Witness ==
    /\ resp.op = "issue_token"
    /\ resp.force
    /\ resp.token = 2
    /\ qr_tokens = {QRToken(2, resp.order_id)}
    /\ order_status[resp.order_id] = "TOKEN_ISSUED"
    /\ proofs[Proof(resp.order_id, "AFTER")] = 1

\* What the three public token-keyed operations answer for token
NoLeakOrder(token) ==
    GetOrder(qr_tokens, proofs, token) = GetOrder(qr_tokens, proofs, NeverIssued)

NoLeakUpload(token) ==
    \A pt \in ProofTypes, file \in Files :
        UploadProof(qr_tokens, order_status, proofs, next_token, token, pt, file, "ok", "ok")
        = UploadProof(qr_tokens, order_status, proofs, next_token, NeverIssued, pt, file,
                      "ok", "ok")

NoLeakProofs(token) ==
    GetProof(qr_tokens, proofs, token) = GetProof(qr_tokens, proofs, NeverIssued)

\* C10  No existence leak: for a token that was revoked, invalidated or
\* deleted, get order summary and upload proof answer exactly as for a token
\* that never existed (404), whatever the file and proof type; get public
\* proofs does so when the order of the token has no proof.
C10_NoExistenceLeak ==
    /\ GetOrder(qr_tokens, proofs, NeverIssued).status = 404
    /\ GetOrder(qr_tokens, proofs, NeverIssued).detail = "TOKEN_INVALID"
    /\ GetProof(qr_tokens, proofs, NeverIssued).status = 404
    /\ GetProof(qr_tokens, proofs, NeverIssued).detail = "TOKEN_INVALID"
    /\ \A t \in Issued :
        ~validate_token(qr_tokens, t) =>
            /\ NoLeakOrder(t)
            /\ NoLeakUpload(t)
            /\ (get_token(qr_tokens, t) = None
                   \/ SortedItems(proofs, get_token(qr_tokens, t).order_id, 1) = <<>>)
                 => NoLeakProofs(t)

\* get order summary answered 404 while the only token issued is a revoked one.
C10_Witness ==
    /\ resp.op = "get_order"
    /\ resp.status = 404
    /\ next_token = 2
    /\ \E r \in qr_tokens : r.token = 1 /\ ~r.is_valid /\ r.revoked_at

\* C10 as stated: all three operations, get public proofs included, answer
\* for a revoked or invalidated token as for one that never existed.
C10_SameForAllThree ==
    \A t \in Issued :
        ~validate_token(qr_tokens, t) =>
            NoLeakOrder(t) /\ NoLeakUpload(t) /\ NoLeakProofs(t)

\* The notification rows of the delivery to ty, oldest first
RowsOf(ty) == SelectSeq(notifications, LAMBDA n : n.type = ty)

\* The delivery to ty has run and has returned.
Finished(ty) ==
    /\ RowsOf(ty) # <<>>
    /\ ~(delivery.pc # "idle" /\ Head(tasks).type = ty)

\* Fallback is enabled: the organization's setting when set, else the global one.
FallbackEnabled ==
    \/ organization.msg_fallback_sms_enabled = "True"
    \/ organization.msg_fallback_sms_enabled = "None" /\ settings.FALLBACK_SMS_ENABLED

\* C6  Fallback invariant: a delivery has one primary row and at most one
\* more; a second row exists only if the primary row is FAILED, its channel
\* is ALIMTALK and fallback is enabled, and it is on channel SMS; and when
\* the delivery has returned, the second row exists exactly in that case: none
\* when fallback is disabled, when the primary channel was SMS or when the
\* primary send succeeded.
C6_FallbackInvariant ==
    \A ty \in {"SENDER", "RECIPIENT"} :
        LET rows == RowsOf(ty) IN
        rows # <<>> =>
            LET primary == rows[1]
                due == /\ primary.status = "FAILED"
                       /\ primary.channel = "ALIMTALK"
                       /\ FallbackEnabled
            IN  /\ Len(rows) <= 2
                /\ Len(rows) = 2 => (due /\ rows[2].channel = "SMS")
                /\ Finished(ty) => Len(rows) = (IF due THEN 2 ELSE 1)
                /\ Finished(ty) => \A i \in 1..Len(rows) : rows[i].status # "PENDING"

\* A failed ALIMTALK delivery to the sender was followed by an SMS row
\* because the organization enables the fallback that the settings disable.
C6_Witness ==
    /\ Finished("SENDER")
    /\ Len(RowsOf("SENDER")) = 2
    /\ RowsOf("SENDER")[1].status = "FAILED"
    /\ RowsOf("SENDER")[2].channel = "SMS"
    /\ RowsOf("SENDER")[2].status = "FALLBACK_SENT"
    /\ organization.msg_fallback_sms_enabled = "True"
    /\ ~settings.FALLBACK_SMS_ENABLED

\* C11  revoke_token(T) on a valid token returns true, sets is_valid to
\* false and revoked_at on the row of T and on nothing else, and T does not
\* validate afterwards; on an invalid or unknown token it returns false and
\* changes no state.
C11_RevokeToken ==
    \A t \in 0..MaxTokens :
        LET r   == RevokeToken(qr_tokens, order_status, proofs, next_token, t)
            row == get_token(qr_tokens, t)
        IN  /\ r.resp.op = "revoke_token"
            /\ r.order_status = order_status
            /\ r.proofs = proofs
            /\ r.next_token = next_token
            /\ r.tasks = <<>>
            /\ IF validate_token(qr_tokens, t)
               THEN /\ r.resp.result = TRUE
                    /\ r.qr_tokens = (qr_tokens \ {row})
                          \cup {[row EXCEPT !.is_valid = FALSE, !.revoked_at = TRUE]}
                    /\ get_token(r.qr_tokens, t).revoked_at
                    /\ ~validate_token(r.qr_tokens, t)
               ELSE /\ r.resp.result = FALSE
                    /\ r.qr_tokens = qr_tokens

\* A revoke of a valid token answered true, and a second revoke of the same
\* token can only answer false.
C11_Witness ==
    /\ resp.op = "revoke_token"
    /\ resp.result = TRUE
    /\ \E r \in qr_tokens :
          /\ ~r.is_valid
          /\ r.revoked_at
          /\ ~RevokeToken(qr_tokens, order_status, proofs, next_token, r.token).resp.result

\* The detail of each refusal of an upload.
InvalidFileType == "UPLOAD_FAILED: Invalid file type. Only images are allowed."
FileTooLarge == "UPLOAD_FAILED: File too large. Maximum size is 10MB."
TokenInvalid == "Invalid or expired token."
DuplicateProofType(proof_type) == proof_type \o " proof already uploaded for this order."

\* C12  Precondition order of an upload: when a request violates several
\* preconditions at once, the error reported is the first one in the order
\* invalid file type, file too large, token invalid, duplicate proof type;
\* an invalid token presented with a non-image or oversized file is reported
\* as the file error.
C12_PreconditionOrder ==
    \A t \in 0..MaxTokens, pt \in ProofTypes, file \in Files :
        LET r == UploadProof(qr_tokens, order_status, proofs, next_token,
                             t, pt, file, "ok", "ok")
            o == get_order_by_token(qr_tokens, t)
        IN  IF ~file.image THEN r.resp.detail = InvalidFileType
            ELSE IF ~file.size_ok THEN r.resp.detail = FileTooLarge
            ELSE IF ~validate_token(qr_tokens, t) THEN r.resp.detail = TokenInvalid
            ELSE IF HasProof(proofs, o, pt) THEN r.resp.detail = DuplicateProofType(pt)
            ELSE r.resp.status \in {200, 500}

\* An upload of a non-image with a token that does not validate was answered
\* with the file-type error.
C12_Witness ==
    /\ resp.op = "upload_proof"
    /\ resp.detail = InvalidFileType
    /\ \E t \in Issued :
          /\ ~validate_token(qr_tokens, t)
          /\ UploadProof(qr_tokens, order_status, proofs, next_token, t, "AFTER",
                         File(FALSE, TRUE, TRUE), "ok", "ok").resp = resp

\* C12 as stated: the invalid token is reported first, whatever the file.
C12_TokenFirst ==
    \A t \in 0..MaxTokens, pt \in ProofTypes, file \in Files :
        LET r == UploadProof(qr_tokens, order_status, proofs, next_token,
                             t, pt, file, "ok", "ok")
            o == get_order_by_token(qr_tokens, t)
        IN  IF ~validate_token(qr_tokens, t) THEN r.resp.detail = TokenInvalid
            ELSE IF HasProof(proofs, o, pt) THEN r.resp.detail = DuplicateProofType(pt)
            ELSE IF ~file.image THEN r.resp.detail = InvalidFileType
            ELSE IF ~file.size_ok THEN r.resp.detail = FileTooLarge
            ELSE r.resp.status \in {200, 500}

\* C13  Error surface of an upload: an invalid token is reported with status
\* 404, an invalid file type, an oversized file and a duplicate proof type
\* each with status 422, and a refused upload persists nothing.
C13_ErrorSurface ==
    \A t \in 0..MaxTokens, pt \in ProofTypes, file \in Files :
        LET r == UploadProof(qr_tokens, order_status, proofs, next_token,
                             t, pt, file, "ok", "ok")
        IN  /\ r.resp.detail = TokenInvalid => r.resp.status = 404
            /\ r.resp.detail \in {InvalidFileType, FileTooLarge, DuplicateProofType(pt)}
                  => r.resp.status = 422
            /\ r.resp.status \in {404, 422} =>
                  /\ r.qr_tokens = qr_tokens
                  /\ r.order_status = order_status
                  /\ r.proofs = proofs
                  /\ r.tasks = <<>>

\* A second RECEIPT upload for an order was answered 404 with the duplicate
\* message.
C13_Witness ==
    /\ resp.op = "upload_proof"
    /\ resp.status = 404
    /\ resp.detail = DuplicateProofType("RECEIPT")
    /\ \E r \in qr_tokens : r.is_valid /\ HasProof(proofs, r.order_id, "RECEIPT")

TerminalStatuses == {"SENT", "MOCK_SENT", "FALLBACK_SENT", "FAILED"}

\* C14  Notification rows are immutable once terminal: no step removes a
\* row; a step changes of a row nothing but its status and sent_at, only when
\* the status is PENDING and only to SENT, MOCK_SENT, FALLBACK_SENT or FAILED; a row
\* whose status is terminal is never modified, and the fallback of a failed
\* primary is a new row, the primary row staying as it was.
C14_ImmutableOnceTerminal ==
    [][/\ Len(notifications') >= Len(notifications)
       /\ \A i \in 1..Len(notifications) :
            LET old == notifications[i]
                new == notifications'[i]
            IN  /\ old.status \in TerminalStatuses => new = old
                /\ new # old =>
                     /\ old.status = "PENDING"
                     /\ new.status \in TerminalStatuses
                     /\ new = [old EXCEPT !.status = new.status, !.sent_at = new.sent_at]
       /\ \A i \in (Len(notifications) + 1)..Len(notifications') :
            /\ notifications'[i].status = "PENDING"
            /\ notifications'[i].channel = "SMS" /\ primary_channel(settings) = "ALIMTALK" =>
                 /\ delivery.pc = "fallback"
                 /\ notifications[delivery.row].status = "FAILED"
                 /\ notifications'[delivery.row] = notifications[delivery.row]
      ]_vars

\* Both deliveries failed on ALIMTALK and each got an SMS row of its own:
\* four terminal rows, the two primary rows still FAILED on ALIMTALK.
C14_Witness ==
    /\ tasks = <<>>
    /\ Len(notifications) = 4
    /\ notifications[1].status = "FAILED" /\ notifications[1].channel = "ALIMTALK"
    /\ notifications[2].status = "FAILED" /\ notifications[2].channel = "SMS"
    /\ notifications[3].status = "FAILED" /\ notifications[3].channel = "ALIMTALK"
    /\ notifications[4].status = "FALLBACK_SENT" /\ notifications[4].channel = "SMS"

\* Both deliveries were scheduled by the upload.
BothScheduled ==
    /\ resp.op = "upload_proof"
    /\ resp.body.sender_phone = "ok"
    /\ resp.body.recipient_phone = "ok"

\* C15  Delivery isolation: when both deliveries are scheduled, no step of
\* one of them, whatever fails in it, takes the other one off the list of
\* tasks before it was started, nor changes a Notification row of the other.
C15_DeliveryIsolation ==
    [][BothScheduled =>
         /\ \A i \in 2..Len(tasks) : \E j \in 1..Len(tasks') : tasks'[j] = tasks[i]
         /\ \A i \in 1..Len(notifications) :
               (tasks # <<>> /\ notifications[i].type # Head(tasks).type)
                  => /\ Len(notifications') >= i
                     /\ notifications'[i] = notifications[i]
      ]_vars

\* Both deliveries were scheduled, no task is left, and there is no row for
\* either: the sender's row could not be created and the delivery to the
\* recipient was never started.
C15_Witness ==
    /\ BothScheduled
    /\ tasks = <<>>
    /\ delivery = Idle
    /\ notifications = <<>>

\* C16  Retry attempt count: a run of _retry_with_backoff calls the
\* operation at most max_retries + 1 times; it returns at the first call that
\* succeeds, with the result of that call; it raises only after exactly
\* max_retries + 1 calls that all failed, whatever each call raised.
C16_RetryAttemptCount ==
    /\ retry.calls <= retry.max_retries + 1
    /\ retry.pc = "call" =>
          /\ Len(retry.errors) = retry.calls
          /\ retry.calls <= retry.max_retries
    /\ retry.pc = "returned" =>
          /\ Len(retry.errors) = retry.calls - 1
          /\ retry.result = SendResult(retry.calls)
          /\ retry.exception = None
    /\ retry.pc = "raised" =>
          /\ Len(retry.errors) = retry.calls
          /\ retry.calls = retry.max_retries + 1
          /\ retry.result = None

\* A run with max_retries = 3 raised after four calls that failed in the
\* four different ways.
C16_Witness ==
    /\ retry.pc = "raised"
    /\ retry.max_retries = NOTIFICATION_MAX_RETRIES
    /\ retry.calls = 4
    /\ {retry.errors[i].category : i \in 1..4} = FailureCategories

\* C17  Retry exhaustion re-raises: a run of _retry_with_backoff that raises
\* raises the exception object of its last call, the call number
\* max_retries + 1, as that call raised it, and a run that has not raised
\* holds no exception to raise but that of its latest failed call.
C17_ReraisesLast ==
    /\ retry.pc = "raised" =>
          /\ retry.exception = retry.errors[Len(retry.errors)]
          /\ retry.exception.call = retry.max_retries + 1
          /\ retry.exception \in {Exception(c, retry.max_retries + 1) : c \in FailureCategories}
    /\ retry.pc # "raised" => retry.exception = None
    /\ retry.errors # <<>> => retry.last_exception = retry.errors[Len(retry.errors)]

\* A run raised the timeout of its fourth call after a first call that had
\* failed on missing configuration.
C17_Witness ==
    /\ retry.pc = "raised"
    /\ Len(retry.errors) = 4
    /\ retry.errors[1].category = "ConfigMissingError"
    /\ retry.exception = Exception("TimeoutException", 4)

\* The characters a short code may hold: digits and capitals without the
\* look-alikes 0, O, 1 and I.
AlphabetChars == {"2", "3", "4", "5", "6", "7", "8", "9", "A", "B", "C", "D", "E", "F", "G", "H", "J", "K", "L", "M", "N", "P", "Q", "R", "S", "T", "U", "V", "W", "X", "Y", "Z"}

\* Every stored code is made of characters of the 32-character alphabet.
C18_Alphabet ==
    /\ Cardinality(AlphabetChars) = 32
    /\ AlphabetChars \cap {"0", "O", "1", "I"} = {}
    /\ \A l \in short_links : \A k \in DOMAIN l.code : l.code[k] \in AlphabetChars

\* C18  Short-code alphabet and uniqueness: every stored code contains only
\* characters of the 32-character alphabet (no 0, O, 1, I), and a code that
\* get_or_create_public_proof stores, a 9-character code of the last-resort
\* path included, is the code of no row stored before: no two rows have the
\* same code.
C18_AlphabetAndUniqueness ==
    /\ C18_Alphabet
    /\ \A l1, l2 \in short_links : l1.code = l2.code => l1 = l2
    /\ \A o \in LinkOrders, t \in LinkTokens, code \in DrawnCodes(short_links) :
          get_existing_for_order(short_links, o) = None
             => \A l \in short_links :
                   get_or_create_public_proof(short_links, o, t, code).link.code # l.code

\* A third order got, on the last-resort path, the 9-character code that
\* the second order already has.
C18_Witness ==
    /\ resp.op = "get_or_create_public_proof"
    /\ ~resp.raised
    /\ Len(resp.link.code) = 9
    /\ \E l \in short_links : l.code = resp.link.code /\ l.order_id # resp.link.order_id

\* A link of the table that was made by get_or_create_public_proof.
LinkOf(o) == get_existing_for_order(short_links, o)

\* C19  One short link per order: every order has at most one ShortLink; a
\* call of get_or_create_public_proof for an order that has a link returns
\* that link, its code unchanged and its target_token the passed token, and
\* the table afterwards is the table before with that one row's
\* target_token set: no row is added, and nothing changes when the token is
\* the same.
C19_OneLinkPerOrder ==
    /\ \A o \in LinkOrders : Cardinality({l \in short_links : l.order_id = o}) <= 1
    /\ \A o \in LinkOrders, t \in LinkTokens \cup {3}, code \in ShortCodes \cup LongCodes :
          LET r == get_or_create_public_proof(short_links, o, t, code) IN
          LinkOf(o) # None =>
              /\ r.link.code = LinkOf(o).code
              /\ r.link.order_id = o
              /\ r.link.target_token = t
              /\ r.link = [LinkOf(o) EXCEPT !.target_token = t]
              /\ r.links = (short_links \ {LinkOf(o)}) \cup {r.link}
              /\ Cardinality(r.links) = Cardinality(short_links)
              /\ t = LinkOf(o).target_token => r.links = short_links

\* All three orders have a link, and the last call was for an order that had
\* one: it returned the link with the new token and added no row.
C19_Witness ==
    /\ resp.op = "get_or_create_public_proof"
    /\ resp.branch = "updated"
    /\ resp.link.target_token = 2
    /\ resp.link \in short_links
    /\ Cardinality(short_links) = 3

\* C20  resolve_short looks the code up after trimming and upper-casing it:
\* when a row has that code, the response is 200 with the row's target path
\* and token and the row's click_count is one more, nothing else changing;
\* when no row has it, the response is SHORT_NOT_FOUND (404) and the table
\* is unchanged.  (What is blank after trimming is no code: it is refused
\* before the lookup and changes nothing.)
C20_ResolveShort ==
    \A raw \in RawCodes, pick \in short_links \cup {None} :
        LET code == upper(strip(raw))
            matches == {l \in short_links : l.code = code}
            r == ResolveShort(short_links, raw, pick)
        IN  IF code = <<>> THEN r.links = short_links /\ r.resp.status # 200
            ELSE IF matches = {}
            THEN /\ r.resp.status = 404
                 /\ r.resp.detail = "SHORT_NOT_FOUND"
                 /\ r.links = short_links
            ELSE \E l \in matches :
                 /\ r.resp.status = 200
                 /\ r.resp.target_path = l.target_path
                 /\ r.resp.target_token = l.target_token
                 /\ r.links = (short_links \ {l}) \cup {[l EXCEPT !.click_count = l.click_count + 1]}

\* A link was resolved twice, and the last request, answered with the
\* link's path and token, would also have been answered so for the code
\* typed in lower case between blanks.
C20_Witness ==
    /\ resp.op = "resolve_short"
    /\ resp.status = 200
    /\ \E l \in short_links :
          /\ l.click_count = 2
          /\ resp.target_token = l.target_token
          /\ resp.target_path = "/p"
          /\ ResolveShort(short_links, <<" ">> \o lower(l.code) \o <<" ">>, None).resp = resp

\* A step in which the running delivery returns.
DeliveryReturns == delivery.pc # "idle" /\ delivery'.pc = "idle"

IsFallbackRow(rows, i) == rows[i].channel = "SMS" /\ primary_channel(settings) = "ALIMTALK"

\* C22  Fallback outcome status, as the code has it: the SMS row of a
\* fallback ends MOCK_SENT under the mock provider, FALLBACK_SENT when a call
\* of the SMS provider returned, and FAILED when the SMS provider could not
\* be built or its last call (number max_retries + 1) raised; it is never
\* SENT, and sent_at is set unless it FAILED.
C22_FallbackOutcome ==
    /\ [](\A i \in 1..Len(notifications) : IsFallbackRow(notifications, i) =>
            /\ notifications[i].status \in {"PENDING", "MOCK_SENT", "FALLBACK_SENT", "FAILED"}
            /\ notifications[i].status = "MOCK_SENT" => settings.MESSAGING_PROVIDER = "mock"
            /\ notifications[i].sent_at <=> notifications[i].status \in {"MOCK_SENT", "FALLBACK_SENT"}
            /\ notifications[i].status = "PENDING" => delivery.row = i /\ delivery.pc \in {"fallback_send", "fallback_try"})
    /\ [][\A i \in 1..Len(notifications) :
            (IsFallbackRow(notifications, i) /\ notifications'[i] # notifications[i]) =>
                /\ delivery.row = i
                /\ notifications[i].status = "PENDING"
                /\ DeliveryReturns
                /\ notifications'[i].status = "FALLBACK_SENT" =>
                     /\ delivery.pc = "fallback_try"
                     /\ delivery'.calls = delivery.calls + 1
                /\ notifications'[i].status = "FAILED" =>
                     \/ delivery.pc = "fallback_send" /\ delivery'.calls = delivery.calls
                     \/ /\ delivery.pc = "fallback_try"
                        /\ delivery.attempt = NOTIFICATION_MAX_RETRIES
                        /\ delivery'.calls = delivery.calls + 1
          ]_vars

\* The sender's primary failed and its SMS fallback got through on the
\* second call of the SMS provider.
C22_Witness ==
    /\ Len(notifications) = 2
    /\ notifications[1].status = "FAILED" /\ notifications[1].channel = "ALIMTALK"
    /\ notifications[2].status = "FALLBACK_SENT" /\ notifications[2].channel = "SMS"
    /\ notifications[2].sent_at
    /\ delivery.pc = "idle"
    /\ delivery.calls = NOTIFICATION_MAX_RETRIES + 3

\* C22 as stated: the SMS row of a fallback ends MOCK_SENT, SENT or FAILED.
C22_AsStated ==
    \A i \in 1..Len(notifications) : IsFallbackRow(notifications, i) =>
        notifications[i].status \in {"PENDING", "MOCK_SENT", "SENT", "FAILED"}

\* The proof page of token lists each proof of order o in prf, type by type.
ListsEveryProof(page, prf, o) ==
    /\ page.status = 200
    /\ page.body.order_id = o
    /\ \A ty \in ProofTypes :
         Cardinality({i \in 1..Len(page.body.proofs) : page.body.proofs[i] = ty})
            = prf[Proof(o, ty)]

\* C23  Proof page stays reachable: an AFTER upload accepted with token T
\* leaves T invalid for uploads, and get_proof_by_token for T then succeeds
\* and lists every proof of the order, a BEFORE proof uploaded earlier
\* included; and in every state the page of a token whose row exists,
\* valid or not, lists every proof of its order as soon as there is one.
C23_ProofPageReachable ==
    /\ \A t \in Issued, sender_phone \in SenderPhones, recipient_phone \in RecipientPhones :
        LET r == UploadProof(qr_tokens, order_status, proofs, next_token, t, "AFTER",
                             GoodFile, sender_phone, recipient_phone)
            o == get_token(qr_tokens, t).order_id
        IN  r.resp.status = 200 =>
              /\ ~validate_token(r.qr_tokens, t)
              /\ r.proofs[Proof(o, "AFTER")] = 1
              /\ r.proofs[Proof(o, "BEFORE")] = proofs[Proof(o, "BEFORE")]
              /\ ListsEveryProof(GetProof(r.qr_tokens, r.proofs, t), r.proofs, o)
    /\ \A row \in qr_tokens :
        (\E ty \in ProofTypes : HasProof(proofs, row.order_id, ty)) =>
            ListsEveryProof(GetProof(qr_tokens, proofs, row.token), proofs, row.order_id)

\* The page was asked with the first token, which its AFTER upload had made
\* invalid, and it lists the BEFORE and the AFTER proof of the order.
C23_Witness ==
    /\ resp.op = "get_proof"
    /\ resp.status = 200
    /\ resp.body.proofs = <<"BEFORE", "AFTER">>
    /\ next_token = 2
    /\ \E row \in qr_tokens : /\ row.token = 1
                              /\ ~row.is_valid
                              /\ row.order_id = resp.body.order_id

\* C24  Reminder dispatch: send_reminder_notification adds at most one task,
\* for the sender's phone; every row of a reminder has type REMINDER and
\* channel SMS under every provider; a row is added only when a task
\* starts, one per task, so none is added after a failure; and a reminder
\* that fails ends FAILED in the step in which its delivery ends.
C24_ReminderDispatch ==
    /\ [](/\ \A o \in Orders \cup {NoOrder}, p \in ReminderPhones :
                LET r == send_reminder_notification(<<>>, o, p) IN
                /\ Len(r.tasks) <= 1
                /\ \A i \in 1..Len(r.tasks) : r.tasks[i] = ReminderTask(o, "sender")
           /\ Len(tasks) <= 1
           /\ \A i \in 1..Len(notifications) :
                /\ notifications[i].type = "REMINDER"
                /\ notifications[i].channel = "SMS"
                /\ notifications[i].status \in {"PENDING", "MOCK_SENT", "SENT", "FAILED"}
                /\ notifications[i].status = "PENDING" => delivery.pc # "idle" /\ delivery.row = i)
    /\ [][/\ Len(notifications') > Len(notifications) =>
                /\ delivery.pc = "idle" /\ tasks # <<>>
                /\ Len(notifications') = Len(notifications) + 1
           /\ \A i \in 1..Len(notifications) :
                (notifications[i].status # "FAILED" /\ notifications'[i].status = "FAILED") =>
                    /\ i = delivery.row
                    /\ DeliveryReturns
                    /\ tasks' = <<>>
                    /\ Len(notifications') = Len(notifications)
          ]_vars

\* Under the ALIMTALK provider with the fallback enabled, a reminder failed
\* after all its calls: one row, REMINDER on SMS, FAILED, and nothing left
\* to run.
C24_Witness ==
    /\ settings.MESSAGING_PROVIDER = "kakao_i_connect"
    /\ FallbackEnabled
    /\ resp.op = "send_reminder"
    /\ Len(notifications) = 1
    /\ notifications[1].type = "REMINDER"
    /\ notifications[1].channel = "SMS"
    /\ notifications[1].status = "FAILED"
    /\ tasks = <<>>
    /\ delivery.pc = "idle"
    /\ delivery.calls = NOTIFICATION_MAX_RETRIES + 1

\* C25  Fire-and-forget: create_proof has answered 200 and committed the
\* AFTER proof, the status PROOF_UPLOADED and the invalid token before the
\* first delivery starts, and no step of a delivery (a provider that cannot
\* be built, a call that fails, exhausted retries, a failed fallback, a
\* commit that raises) changes the answer, the proofs, the order status or
\* the token rows.
C25_FireAndForget ==
    /\ [](/\ resp.op = "upload_proof"
           /\ resp.status = 200
           /\ resp.body.proof_type = "AFTER"
           /\ ~validate_token(qr_tokens, resp.body.token)
           /\ \E row \in qr_tokens :
                /\ row.token = resp.body.token
                /\ proofs[Proof(row.order_id, "AFTER")] = 1
                /\ order_status[row.order_id] = "PROOF_UPLOADED")
    /\ [][/\ resp' = resp
           /\ proofs' = proofs
           /\ order_status' = order_status
           /\ qr_tokens' = qr_tokens
           /\ next_token' = next_token]_vars

\* Every delivery failed, the fallbacks included, and the upload's answer
\* and proof are as they were.
C25_Witness ==
    /\ tasks = <<>>
    /\ delivery.pc = "idle"
    /\ Len(notifications) = 4
    /\ \A i \in 1..4 : notifications[i].status = "FAILED"
    /\ resp.op = "upload_proof" /\ resp.status = 200
    /\ ProofCount(proofs) = 1

\* The running delivery is between two calls of _retry_with_backoff: a call
\* raised and the next one follows the sleep.
InBackoff == delivery.pc \in {"primary_try", "fallback_try"} /\ delivery.attempt >= 1

\* A step that starts the delivery of the task that is not running: it adds
\* that task's PENDING row.
OtherDeliveryStarts ==
    /\ NextDelivery
    /\ Len(notifications') = Len(notifications) + 1
    /\ notifications'[Len(notifications')].type # Head(tasks).type

\* C26  Backoff does not block the other delivery: while one delivery of a
\* dual dispatch sleeps in its backoff and the other has not started, the
\* other delivery can start.
C26_BackoffDoesNotBlock ==
    (InBackoff /\ Len(tasks) = 2) => ENABLED OtherDeliveryStarts

\* The sender's delivery sleeps before its last call while the recipient's
\* task waits in the queue without a row.
C26_Witness ==
    /\ Len(tasks) = 2
    /\ Head(tasks).type = "SENDER"
    /\ delivery.pc = "primary_try"
    /\ delivery.attempt = NOTIFICATION_MAX_RETRIES
    /\ RowsOf("RECIPIENT") = <<>>
    /\ Len(RowsOf("SENDER")) = 1

\* The states from which the next step of the running delivery builds a
\* provider or calls it.
AtProvider == delivery.pc \in {"real_send", "primary_try", "fallback_send", "fallback_try", "reminder_send", "reminder_try"}

\* The row of the running delivery is stored, PENDING, and is the row of
\* the task that runs.
RowIsPending ==
    /\ delivery.row \in 1..Len(notifications)
    /\ notifications[delivery.row].status = "PENDING"
    /\ notifications[delivery.row].order_id = Head(tasks).order_id
    /\ notifications[delivery.row].type = Head(tasks).type

\* C27  Audit row precedes delivery: in the primary send, the SMS fallback
\* and the reminder, whenever the delivery is about to build or call a
\* provider its own row is stored with status PENDING; every step that
\* makes a provider call starts from such a state, and a delivery that has
\* made a call has a row.
C27_AuditRowFirst ==
    /\ [](/\ (AtProvider => RowIsPending)
           /\ (delivery.calls > 0 => Len(notifications) > 0))
    /\ [][delivery'.calls > delivery.calls =>
            /\ RowIsPending
            /\ delivery'.calls = delivery.calls + 1
            /\ delivery.pc \in {"primary_try", "fallback_try", "reminder_try"}
          ]_vars

\* The fallback is about to make the second call of the SMS provider and
\* its row, the second of the delivery, is PENDING.
C27_Witness ==
    /\ delivery.pc = "fallback_try"
    /\ delivery.attempt = 1
    /\ delivery.calls = NOTIFICATION_MAX_RETRIES + 2
    /\ delivery.row = 2
    /\ notifications[1].status = "FAILED"
    /\ notifications[2].status = "PENDING"
    /\ notifications[2].channel = "SMS"

\* The most provider calls one delivery makes: a full run of
\* _retry_with_backoff on the primary channel and one on SMS.
MaxProviderCalls == 2 * (NOTIFICATION_MAX_RETRIES + 1)

\* C28  Fallback does not cascade: a delivery has at most two rows and
\* makes at most 2 * (max_retries + 1) provider calls; the step in which the
\* fallback row becomes FAILED ends the delivery without adding a row, and
\* once a delivery has ended its rows stay as they are and no further row of
\* its type is added.
C28_NoCascade ==
    /\ [](/\ \A ty \in {"SENDER", "RECIPIENT"} : Len(RowsOf(ty)) <= 2
           /\ Len(notifications) <= 4
           /\ delivery.calls <= MaxProviderCalls
           /\ delivery.attempt <= NOTIFICATION_MAX_RETRIES)
    /\ [][/\ \A i \in 1..Len(notifications) :
                (/\ IsFallbackRow(notifications, i)
                 /\ notifications[i].status # "FAILED"
                 /\ notifications'[i].status = "FAILED") =>
                    /\ DeliveryReturns
                    /\ Len(notifications') = Len(notifications)
                    /\ tasks' = Tail(tasks)
           /\ \A ty \in {"SENDER", "RECIPIENT"} :
                (RowsOf(ty) # <<>> /\ (tasks = <<>> \/ Head(tasks).type # ty)) =>
                    SelectSeq(notifications', LAMBDA n : n.type = ty) = RowsOf(ty)
          ]_vars

\* The sender's delivery has ended after every call of both providers
\* failed: two FAILED rows, 2 * (max_retries + 1) calls, and the recipient's
\* delivery still to come.
C28_Witness ==
    /\ delivery.pc = "idle"
    /\ delivery.calls = MaxProviderCalls
    /\ Len(tasks) = 1
    /\ Len(notifications) = 2
    /\ notifications[1].status = "FAILED" /\ notifications[1].channel = "ALIMTALK"
    /\ notifications[2].status = "FAILED" /\ notifications[2].channel = "SMS"
    /\ ~notifications[2].sent_at

\* C29  Backoff delays: sleep number k of a run of _retry_with_backoff, the
\* one before retry attempt k, lasts base_delay * 2^(k-1); a sleep follows
\* every failed call but the last one allowed, so a run that goes on has
\* slept once per call made, a run that ended has slept once less than it
\* called, a run that raised has slept exactly max_retries times, and a run
\* whose first call returned has not slept.
C29_BackoffDelays ==
    /\ \A k \in 1..Len(retry.sleeps) : retry.sleeps[k] = retry.base_delay * 2^(k - 1)
    /\ Len(retry.sleeps) <= retry.max_retries
    /\ retry.pc = "call" => Len(retry.sleeps) = retry.calls
    /\ retry.pc = "returned" =>
          /\ Len(retry.sleeps) = retry.calls - 1
          /\ retry.calls = 1 => retry.sleeps = <<>>
    /\ retry.pc = "raised" =>
          /\ Len(retry.sleeps) = retry.max_retries
          /\ Len(retry.sleeps) = retry.calls - 1

\* A run with base_delay 2 and max_retries 3 raised after sleeping 2, 4 and
\* 8 seconds.
C29_Witness ==
    /\ retry.pc = "raised"
    /\ retry.base_delay = 2
    /\ retry.sleeps = <<2, 4, 8>>
    /\ retry.calls = 4

\* The lifecycle of an order, in its order.
StatusOrder == <<"PENDING", "TOKEN_ISSUED", "PROOF_UPLOADED", "NOTIFIED", "COMPLETED">>

StatusRank(status) == CHOOSE i \in 1..Len(StatusOrder) : StatusOrder[i] = status

\* C30  Order status never regresses: no step of issue_token, get_labels,
\* bulk_generate_tokens or upload_proof moves the status of an order to an
\* earlier one of PENDING, TOKEN_ISSUED, PROOF_UPLOADED, NOTIFIED, COMPLETED.
C30_StatusNeverRegresses ==
    [][\A o \in Orders : StatusRank(order_status'[o]) >= StatusRank(order_status[o])]_vars

\* An order with a recorded AFTER proof is back at TOKEN_ISSUED after an
\* issue_token that was not forced.
C30_Witness ==
    \E o \in Orders :
        /\ HasProof(proofs, o, "AFTER")
        /\ order_status[o] = "TOKEN_ISSUED"
        /\ resp.op = "issue_token"
        /\ resp.order_id = o
        /\ ~resp.force

\* C31  At most one proof per (order, proof_type) under concurrency: however
\* the create_proof calls interleave, no order has two Proof rows of one type.
C31_OneProofPerType ==
    \A o \in Orders, ty \in ProofTypes : proofs[Proof(o, ty)] <= 1

\* Two uploads with the same token were both answered 200 and the order has
\* two AFTER proofs.
C31_Witness ==
    /\ \A p \in 1..2 : /\ inflight[p].pc = "done"
                       /\ inflight[p].status = 200
                       /\ inflight[p].token = 1
                       /\ inflight[p].proof_type = "AFTER"
    /\ proofs[Proof(1, "AFTER")] = 2

\* The token rows of an order.
RowsOfOrder(rows, o) == {r \in rows : r.order_id = o}

\* C32  Concurrent issuance: however the steps of the issue_token calls
\* interleave and whatever their force flags, no order ever has two token
\* rows, hence never two valid tokens; an insert for an order that has a
\* row is rejected and changes no row, and an insert is accepted only for
\* an order without a row.
C32_ConcurrentIssuance ==
    /\ [](\A o \in Orders :
            /\ Cardinality(RowsOfOrder(qr_tokens, o)) <= 1
            /\ Cardinality(ValidRows(qr_tokens, o)) <= 1)
    /\ [][\A p \in 1..MaxCalls :
            (inflight[p].pc = "insert" /\ inflight'[p].pc # "insert") =>
                IF RowsOfOrder(qr_tokens, inflight[p].order_id) # {}
                THEN /\ qr_tokens' = qr_tokens
                     /\ inflight'[p].status = 500
                     /\ inflight'[p].detail = "IntegrityError"
                ELSE /\ inflight'[p].pc = "status"
                     /\ RowsOfOrder(qr_tokens', inflight[p].order_id)
                            = {QRToken(inflight'[p].token, inflight[p].order_id)}
          ]_vars

\* Two forced calls for order 1, which had a valid token: one was answered
\* with the new token, the insert of the other was rejected.
C32_Witness ==
    /\ \A p \in 1..2 : /\ inflight[p].pc = "done"
                       /\ inflight[p].order_id = 1
                       /\ inflight[p].force
    /\ inflight[1].status = 200
    /\ inflight[2].status = 500 /\ inflight[2].detail = "IntegrityError"
    /\ RowsOfOrder(qr_tokens, 1) = {QRToken(inflight[1].token, 1)}
    /\ inflight[1].token > 1

\* Call p ends in this step with an answer other than 200.
Fails(p) == inflight[p].pc # "done" /\ inflight'[p].pc = "done" /\ inflight'[p].status # 200

\* C33  No partial state on failure: a step in which a create_proof call
\* fails (token or duplicate check, file that cannot be written, commit that
\* raises) changes no proof, no token row, no order status and schedules
\* nothing; an AFTER proof row, the status PROOF_UPLOADED and the token's
\* invalidation appear in one and the same step, and a proof of another type
\* changes neither status nor token; so in every state an order has an AFTER
\* proof exactly when its status is PROOF_UPLOADED and its token is invalid.
C33_NoPartialState ==
    /\ [](\A o \in Orders :
            /\ HasProof(proofs, o, "AFTER") <=> order_status[o] = "PROOF_UPLOADED"
            /\ HasProof(proofs, o, "AFTER") <=> ValidRows(qr_tokens, o) = {})
    /\ [][/\ \A p \in 1..MaxCalls : Fails(p) =>
                /\ proofs' = proofs
                /\ qr_tokens' = qr_tokens
                /\ order_status' = order_status
                /\ tasks' = tasks
           /\ \A o \in Orders :
                LET added == proofs'[Proof(o, "AFTER")] > proofs[Proof(o, "AFTER")] IN
                /\ added => /\ order_status'[o] = "PROOF_UPLOADED"
                            /\ ValidRows(qr_tokens', o) = {}
                /\ order_status'[o] # order_status[o] => added
                /\ RowsOfOrder(qr_tokens', o) # RowsOfOrder(qr_tokens, o) => added
          ]_vars

\* The commit of an AFTER upload for order 1 raised: the call was answered
\* 500, the order has no proof, its status is TOKEN_ISSUED and its token is
\* valid, while the other call has not started.
C33_Witness ==
    /\ inflight[1].pc = "done"
    /\ inflight[1].status = 500
    /\ inflight[1].detail = "UPLOAD_FAILED: An unexpected error occurred."
    /\ inflight[1].proof_type = "AFTER" /\ inflight[1].token = 1
    /\ inflight[2].pc = "check"
    /\ ProofCount(proofs) = 0
    /\ order_status[1] = "TOKEN_ISSUED"
    /\ validate_token(qr_tokens, 1)

\* The rows one run of the deliveries can write.
RowIds == 1..(4 + MaxReminders)

RowPending(i) == i \in 1..Len(notifications) /\ notifications[i].status = "PENDING"

RowTerminal(i) == i \in 1..Len(notifications) /\ notifications[i].status \in TerminalStatuses

IsCurrentToken(rows, order_id, token) ==
    \E r \in rows : r.order_id = order_id /\ r.token = token

\* C35: the short link follows the token.  In every state a stored
\* ShortLink's target_token is the token of the row its order has now, and
\* a resolve_short that finds a link answers with the current token of the
\* link's order, never with one that a forced reissue has deleted.
C35_LinkFollowsToken ==
    /\ \A l \in short_links : IsCurrentToken(qr_tokens, l.order_id, l.target_token)
    /\ (resp.op = "resolve_short" /\ resp.status = 200)
          => \E r \in qr_tokens : r.token = resp.target_token

\* An order's code was resolved after a forced reissue and the answer was
\* the token that the reissue deleted.
C35_Witness ==
    /\ resp.op = "resolve_short" /\ resp.status = 200
    /\ \A r \in qr_tokens : r.token # resp.target_token
    /\ \E l \in short_links :
          /\ l.target_token = resp.target_token
          /\ l.click_count > 0
          /\ \E r \in qr_tokens : r.order_id = l.order_id /\ r.token > l.target_token

\* The call in progress made a link, or tried to: its order had none.
Creating(c) == c.pc = "done" /\ c.code # <<>>

C37_DecryptionIsolation ==
    /\ \A o \in Orders, sender_phone \in SenderPhones, recipient_phone \in RecipientPhones,
          queue \in {<<>>, tasks} :
          LET r == SendDualNotification(queue, o, sender_phone, recipient_phone) IN
          /\ ~r.raised
          /\ SubSeq(r.tasks, 1, Len(queue)) = queue
          /\ (sender_phone = "fail" /\ recipient_phone = "ok") =>
                r.tasks = Append(queue, Task(o, "RECIPIENT"))
          /\ (sender_phone = "ok" /\ recipient_phone = "fail") =>
                r.tasks = Append(queue, Task(o, "SENDER"))
    /\ (resp.op = "upload_proof" /\ resp.status = 200 /\ resp.body.proof_type = "AFTER") =>
          /\ (resp.body.sender_phone = "fail" /\ resp.body.recipient_phone = "ok") =>
                (Len(tasks) = 1 /\ tasks[1].type = "RECIPIENT")
          /\ (resp.body.sender_phone = "ok" /\ resp.body.recipient_phone = "fail") =>
                (Len(tasks) = 1 /\ tasks[1].type = "SENDER")

\* An AFTER upload was recorded for an order whose sender phone does not
\* decrypt, and the recipient delivery is scheduled alone.
C37_Witness ==
    /\ resp.op = "upload_proof" /\ resp.status = 200
    /\ resp.body.proof_type = "AFTER"
    /\ resp.body.sender_phone = "fail" /\ resp.body.recipient_phone = "ok"
    /\ \E o \in Orders : tasks = <<Task(o, "RECIPIENT")>> /\ HasProof(proofs, o, "AFTER")

\* C38: best-effort click metrics.  When a stored code is resolved and the
\* update of the click counter or of the last-click timestamp fails,
\* resolve does not raise and returns the link, and resolve_short answers
\* 200 with the link's target path and token.
C38_BestEffortMetrics ==
    /\ \A raw \in RawCodes, pick \in short_links \cup {None}, update \in Updates \ {"ok"} :
          LET code == normalize_code(raw)
              matches == {l \in short_links : l.code = code}
              m == ResolveWith(short_links, code, pick, update)
              r == ResolveShortWith(short_links, raw, pick, update)
          IN  matches # {} =>
                /\ ~m.raised
                /\ m.link # None /\ m.link.code = code
                /\ r.resp.status = 200
                /\ r.resp.target_path = m.link.target_path
                /\ r.resp.target_token = m.link.target_token
    /\ (resp.op = "resolve_short_update"
          /\ \E l \in short_links : l.code = resp.code) => resp.status = 200

\* A stored code was resolved, the commit of the counter raised, and the
\* request was answered 500 with no target; the link is as it was.
C38_Witness ==
    /\ resp.op = "resolve_short_update"
    /\ resp.update = "commit_raises"
    /\ resp.status = 500
    /\ resp.target_path = ""
    /\ \E l \in short_links : l.code = resp.code /\ l.click_count = 0

\* What issue_token and bulk_generate_tokens, called for the one order with
\* the same force flag on the same tables, leave and report.
SameIssuance(o, force) ==
    LET a == IssueToken(qr_tokens, order_status, proofs, next_token, o, force)
        b == BulkGenerateTokens(qr_tokens, order_status, proofs, next_token, <<o>>, force)
        one == b.resp.results[1]
    IN  /\ b.resp.status = 200 /\ Len(b.resp.results) = 1
        /\ a.qr_tokens = b.qr_tokens
        /\ a.order_status = b.order_status
        /\ one.order_id = o
        /\ one.success <=> a.resp.status = 200
        /\ one.success => one.token = a.resp.token

\* C39: bulk and single issuance agree.  From every state of an order's
\* token (none, valid, invalidated) and for either force flag,
\* bulk_generate_tokens for the order leaves the rows, their validity and
\* the order status that issue_token leaves, and reports the same success
\* and the same token.
C39_BulkAgreesWithSingle ==
    \A o \in Orders, force \in BOOLEAN : SameIssuance(o, force)

\* A bulk request without force failed for an order whose token is
\* invalidated and left that token in place, where issue_token issues a new
\* one.
C39_Witness ==
    /\ resp.op = "bulk_generate_tokens"
    /\ \E i \in 1..Len(resp.results) :
          LET o == resp.results[i].order_id IN
          /\ ~resp.results[i].success
          /\ qr_token(qr_tokens, o) # None
          /\ ~qr_token(qr_tokens, o).is_valid
          /\ IssueToken(qr_tokens, order_status, proofs, next_token, o, FALSE).resp.status = 200

====
